---- MODULE Spec2Model ----
(***************************************************************************)
(* Model of Mole's front-matter parser: the list/string/boolean value      *)
(* parsers and parse_key of src/parse.rs, and the line loop, completion    *)
(* and Article::parse of src/article.rs; of the rendering of an article    *)
(* (pre_render, render, true_render); and of Build in src/lib.rs: the      *)
(* builder calls includes, articles and sass, and the steps of run.        *)
(*                                                                         *)
(* Text is modelled as a sequence of one-character strings, so that        *)
(* trimming, searching for the colon, quote tracking and bracket           *)
(* stripping are computed as the code computes them.  Offsets are 0-based  *)
(* as in the source; Slice(s, a, b) is the Rust slice s[a..b].             *)
(***************************************************************************)
EXTENDS Integers, Sequences, FiniteSets, TLC

VARIABLES
    pc,            \* "reading" in the `for line in lines` loop, "failed" after a return
                   \* from inside the loop, "done" after the return that follows it
    consumed,      \* the lines handed out by data.lines() so far, in order
    found_config,  \* article.rs:70
    reached_end,   \* article.rs:79
    line_n,        \* article.rs:71; an i8, as the lineno of parse_error_message (parse.rs:66)
    config,        \* article.rs:72
    body,          \* article.rs:78
    result,        \* what Article::parse returned
    lv_in,         \* argument of a direct call of parse_value_list (as in parse_tests)
    lv_out,        \* its return value
    bpc,           \* where the Build is: "idle" (none), "setup" (builder calls), "rendering"
                   \* (inside the article loop of run), "finished", "aborted" (panicked)
    backtrace,     \* lib.rs:20
    includes,      \* lib.rs:15, the template store: name -> template source
    layouts,       \* lib.rs:17
    includes_paths,\* lib.rs:22
    articles,      \* lib.rs:16
    article_paths, \* lib.rs:21
    ncalls,        \* builder calls made so far
    discovered,    \* the article files search_dir has handed to the loop of lib.rs:93, in order
    global,        \* lib.rs:169
    art_i,         \* lib.rs:182 (i), kept 1-based: the article the loop of run is at
    outcomes,      \* what true_render returned for the articles rendered so far
    errors,        \* lib.rs:181
    files,         \* the output directory: path -> content
    log,           \* the error! and warn! records written so far
    panic,         \* the panic that ended the process, "" while there is none
    arg,           \* arguments of a direct call of a function (as the tests call it); for
                   \* a parse of a long header, the number of lines of the file
    ret            \* what the call has returned or, for a pipeline, where it stands

buildVars ==
    <<bpc, backtrace, includes, layouts, includes_paths, articles, article_paths, ncalls,
      discovered, global, art_i, outcomes, errors, files, log, panic>>

vars ==
    <<pc, consumed, found_config, reached_end, line_n, config, body, result, lv_in, lv_out,
      bpc, backtrace, includes, layouts, includes_paths, articles, article_paths, ncalls,
      discovered, global, art_i, outcomes, errors, files, log, panic, arg, ret>>

parserVars == <<pc, consumed, found_config, reached_end, line_n, config, body, result>>

-----------------------------------------------------------------------------
(* Bounds *)

MaxLines == 5     \* lines read from one file
MaxLen == 5       \* length of an enumerated list value
MaxUrlLen == 3    \* length of an enumerated title or permalink
MaxCalls == 3     \* builder calls made on one Build before run
MaxErrLines == 3  \* lines of an enumerated error text
MaxValLen == 3    \* length of an enumerated header value
MaxHeaderLines == 128  \* lines read from a file whose header goes on and on

-----------------------------------------------------------------------------
(* Text helpers: the std::str operations the parser uses *)

WhiteSpace == {" ", "\t", "\n", "\r"}

Slice(s, a, b) == SubSeq(s, a + 1, b)

RECURSIVE trim_start(_)
trim_start(s) ==
    IF s = <<>> THEN s
    ELSE IF Head(s) \in WhiteSpace THEN trim_start(Tail(s))
    ELSE s

RECURSIVE trim_end(_)
trim_end(s) ==
    IF s = <<>> THEN s
    ELSE IF s[Len(s)] \in WhiteSpace THEN trim_end(SubSeq(s, 1, Len(s) - 1))
    ELSE s

trim(s) == trim_end(trim_start(s))

\* str::find of a one-character pattern: 0-based offset of the first match, -1 for None
find(s, c) ==
    IF \E i \in 1..Len(s) : s[i] = c
    THEN (CHOOSE i \in 1..Len(s) : s[i] = c /\ \A j \in 1..(i - 1) : s[j] # c) - 1
    ELSE -1

starts_with(s, c) == Len(s) > 0 /\ s[1] = c

ends_with(s, c) == Len(s) > 0 /\ s[Len(s)] = c

RECURSIVE trim_start_matches(_, _)
trim_start_matches(s, c) ==
    IF starts_with(s, c) THEN trim_start_matches(Tail(s), c) ELSE s

RECURSIVE trim_end_matches(_, _)
trim_end_matches(s, c) ==
    IF ends_with(s, c) THEN trim_end_matches(SubSeq(s, 1, Len(s) - 1), c) ELSE s

\* str::replace(" ", "%20")
RECURSIVE replace_space(_)
replace_space(s) ==
    IF s = <<>> THEN <<>>
    ELSE (IF Head(s) = " " THEN <<"%", "2", "0">> ELSE <<Head(s)>>) \o replace_space(Tail(s))

-----------------------------------------------------------------------------
(* Errors and results *)

Delim == <<"-", "-", "-">>

NoErr == [kind |-> "None", message |-> "", located |-> FALSE, line |-> <<>>,
          start |-> 0, end |-> 0, lineno |-> 0, spacing |-> 0]

\* parse_error_message: the formatted diagnostic, kept as its components
parse_error_message(message, line, start, end, lineno) ==
    [message |-> message, located |-> TRUE, line |-> line,
     start |-> start, end |-> end, lineno |-> lineno,
     spacing |-> IF lineno < 99 THEN 2 ELSE IF lineno < 127 THEN 3 ELSE 4]

\* ParseError::<kind>(<formatted diagnostic>)
ParseError(kind, m) == [kind |-> kind] @@ m

\* ParseError::<kind>("<plain text>".into())
PlainError(kind, message) ==
    [kind |-> kind, message |-> message, located |-> FALSE, line |-> <<>>,
     start |-> 0, end |-> 0, lineno |-> 0, spacing |-> 0]

\* Err(e) as the Result of parse and of Article::parse
Failed(e) == [kind |-> e.kind, err |-> e]

Ok(v) == [ok |-> TRUE, val |-> v, err |-> NoErr]

Err(e) == [ok |-> FALSE, val |-> <<>>, err |-> e]

-----------------------------------------------------------------------------
(* Value parsers of src/parse.rs *)

\* parse_key that splits at the last colon of the line
parse_key_last_colon(rest, line, lineno) ==
    IF rest = <<>>
    THEN Err(ParseError("EmptyValue",
             parse_error_message("expected name of key", line, Len(line), Len(line) + 5, lineno)))
    ELSE IF \E i \in 1..Len(rest) : rest[i] = ":"
    THEN LET last == CHOOSE i \in 1..Len(rest) :
                         rest[i] = ":" /\ \A j \in (i + 1)..Len(rest) : rest[j] # ":"
         IN Ok([key |-> SubSeq(rest, 1, last - 1), rest |-> SubSeq(rest, last + 1, Len(rest))])
    ELSE Err(ParseError("InvalidKey",
             parse_error_message("no semicolon found", line, Len(line), Len(line) + 1, lineno)))

parse_key(rest, line, lineno) ==
    IF rest = <<>>
    THEN Err(ParseError("EmptyValue",
             parse_error_message("expected name of key", line, Len(line), Len(line) + 5, lineno)))
    ELSE IF find(rest, ":") # -1
    THEN Ok([key |-> Slice(rest, 0, find(rest, ":")),
             rest |-> Slice(rest, find(rest, ":") + 1, Len(rest))])
    ELSE Err(ParseError("InvalidKey",
             parse_error_message("no semicolon found", line, Len(line), Len(line) + 1, lineno)))

parse_value_string(rest0, line, lineno) ==
    LET rest == trim(rest0) IN
    IF rest = <<>>
    THEN Err(ParseError("EmptyValue",
             parse_error_message("empty value", line, Len(line), Len(line) + 5, lineno)))
    ELSE IF rest = Delim
    THEN Err(ParseError("InvalidValue",
             parse_error_message(
                 "found '---' can't use configuration start and end identifier as a value",
                 line, Len(line) - 3, Len(line), lineno)))
    ELSE Ok(rest)

parse_value_boolean(rest, line, lineno) ==
    IF rest = <<"t", "r", "u", "e">> THEN Ok(TRUE)
    ELSE IF rest = <<"f", "a", "l", "s", "e">> THEN Ok(FALSE)
    ELSE Err(ParseError("InvalidValue",
             parse_error_message("", line, Len(line) - Len(rest), Len(line), lineno)))

\* list_scan with the quote states ignored: every comma splits
RECURSIVE list_scan_every_comma(_, _, _, _, _)
list_scan_every_comma(rest, i, st, line, lineno) ==
    IF i = Len(rest) THEN st
    ELSE
        IF rest[i + 1] = ","
        THEN LET e == parse_value_string(Slice(rest, st.prev, i), line, lineno) IN
             IF ~e.ok THEN [st EXCEPT !.err = e.err]
             ELSE list_scan_every_comma(rest, i + 1,
                      [st EXCEPT !.list = Append(st.list, e.val), !.prev = i + 1],
                      line, lineno)
        ELSE list_scan_every_comma(rest, i + 1, st, line, lineno)

\* list_scan whose two quote states are toggled independently of each other
RECURSIVE list_scan_independent(_, _, _, _, _)
list_scan_independent(rest, i, st, line, lineno) ==
    IF i = Len(rest) THEN st
    ELSE
        LET item == rest[i + 1] IN
        IF item = "," /\ ~st.in_string /\ ~st.in_string_lower
        THEN LET e == parse_value_string(Slice(rest, st.prev, i), line, lineno) IN
             IF ~e.ok THEN [st EXCEPT !.err = e.err]
             ELSE list_scan_independent(rest, i + 1,
                      [st EXCEPT !.list = Append(st.list, e.val), !.prev = i + 1],
                      line, lineno)
        ELSE IF item = "\""
        THEN list_scan_independent(rest, i + 1, [st EXCEPT !.in_string = ~st.in_string],
                                   line, lineno)
        ELSE IF item = "'"
        THEN list_scan_independent(rest, i + 1,
                                   [st EXCEPT !.in_string_lower = ~st.in_string_lower],
                                   line, lineno)
        ELSE list_scan_independent(rest, i + 1, st, line, lineno)

\* the `for (i, &item) in bytes.iter().enumerate()` loop of parse_value_list;
\* st = [prev, in_string, in_string_lower, list, err]
RECURSIVE list_scan(_, _, _, _, _)
list_scan(rest, i, st, line, lineno) ==
    IF i = Len(rest) THEN st
    ELSE
        LET item == rest[i + 1] IN
        IF item = "," /\ ~st.in_string /\ ~st.in_string_lower
        THEN LET e == parse_value_string(Slice(rest, st.prev, i), line, lineno) IN
             IF ~e.ok THEN [st EXCEPT !.err = e.err]
             ELSE list_scan(rest, i + 1,
                      [st EXCEPT !.list = Append(st.list, e.val), !.prev = i + 1],
                      line, lineno)
        ELSE IF item = "\"" /\ ~st.in_string_lower
        THEN list_scan(rest, i + 1, [st EXCEPT !.in_string = ~st.in_string], line, lineno)
        ELSE IF item = "'" /\ ~st.in_string
        THEN list_scan(rest, i + 1, [st EXCEPT !.in_string_lower = ~st.in_string_lower],
                       line, lineno)
        ELSE list_scan(rest, i + 1, st, line, lineno)

\* list_unbracket that checks the pairing but leaves the brackets in the text
list_unbracket_kept(rest) ==
    IF starts_with(rest, "[") /\ ~ends_with(rest, "]")
    THEN [paired |-> FALSE, rest |-> rest]
    ELSE [paired |-> TRUE, rest |-> rest]

\* the bracket handling of parse_value_list (parse.rs:196-209): the text that is
\* scanned, or "unpaired" when the value opens a bracket it does not close
list_unbracket(rest) ==
    IF starts_with(rest, "[")
    THEN IF ends_with(rest, "]")
         THEN [paired |-> TRUE, rest |-> trim_end_matches(trim_start_matches(rest, "["), "]")]
         ELSE [paired |-> FALSE, rest |-> rest]
    ELSE [paired |-> TRUE, rest |-> rest]

\* list_finish without the `prev == rest.len()` test
list_finish_no_trailing_test(rest, st, line, lineno) ==
    IF st.err # NoErr THEN Err(st.err)
    ELSE IF st.in_string \/ st.in_string_lower
    THEN Err(ParseError("InvalidValue",
             parse_error_message("found a string but no closing quote",
                                 line, Len(line) - 1, Len(line), lineno)))
    ELSE LET e == parse_value_string(Slice(rest, st.prev, Len(rest)), line, lineno) IN
         IF ~e.ok THEN Err(e.err) ELSE Ok(Append(st.list, e.val))

\* what parse_value_list does once the loop is over (parse.rs:223-254); an error
\* raised by `?` inside the loop is in st.err
list_finish(rest, st, line, lineno) ==
    IF st.err # NoErr THEN Err(st.err)
    ELSE IF st.prev = Len(rest)
    THEN Err(ParseError("InvalidValue",
             parse_error_message("value expected after semi-colon",
                                 line, Len(line), Len(line) + 5, lineno)))
    ELSE IF st.in_string
    THEN Err(ParseError("InvalidValue",
             parse_error_message("found a string but no closing \"",
                                 line, Len(line) - 1, Len(line), lineno)))
    ELSE IF st.in_string_lower
    THEN Err(ParseError("InvalidValue",
             parse_error_message("found a string but no closing '",
                                 line, Len(line) - 1, Len(line), lineno)))
    ELSE LET e == parse_value_string(Slice(rest, st.prev, Len(rest)), line, lineno) IN
         IF ~e.ok THEN Err(e.err) ELSE Ok(Append(st.list, e.val))

parse_value_list(rest0, line, lineno) ==
    LET trimmed == trim(rest0) IN
    IF trimmed = <<>>
    THEN Err(ParseError("EmptyValue",
             parse_error_message("empty", line, Len(line), Len(line) + 5, lineno)))
    ELSE
    LET ub == list_unbracket(trimmed) IN
    IF ~ub.paired
    THEN Err(ParseError("InvalidValue",
             parse_error_message("found opening square bracket for list but no opening bracket",
                                 line, 0, Len(line), lineno)))
    ELSE
    list_finish(ub.rest,
                list_scan(ub.rest, 0,
                    [prev |-> 0, in_string |-> FALSE, in_string_lower |-> FALSE,
                     list |-> <<>>, err |-> NoErr],
                    line, lineno),
                line, lineno)

-----------------------------------------------------------------------------
(* Configuration (article.rs:21-54) *)

K_layout == <<"l", "a", "y", "o", "u", "t">>
K_base_layout == <<"b", "a", "s", "e", "_", "l", "a", "y", "o", "u", "t">>
K_title == <<"t", "i", "t", "l", "e">>
K_description == <<"d", "e", "s", "c", "r", "i", "p", "t", "i", "o", "n">>
K_permalink == <<"p", "e", "r", "m", "a", "l", "i", "n", "k">>
K_categories == <<"c", "a", "t", "e", "g", "o", "r", "i", "e", "s">>
K_tags == <<"t", "a", "g", "s">>
K_titlebar == <<"t", "i", "t", "l", "e", "b", "a", "r">>
K_date == <<"d", "a", "t", "e">>

\* impl Default for Config
\* a default configuration whose base_layout is empty like its other strings
Config_default_empty_base ==
    [layout |-> <<>>, base_layout |-> <<>>, title |-> <<>>, description |-> <<>>,
     permalink |-> <<>>, categories |-> <<>>, tags |-> <<>>, visible |-> FALSE,
     date |-> <<>>]

Config_default ==
    [layout |-> <<>>, base_layout |-> <<"d", "e", "f", "a", "u", "l", "t">>, title |-> <<>>, description |-> <<>>,
     permalink |-> <<>>, categories |-> <<>>, tags |-> <<>>, visible |-> FALSE,
     date |-> <<>>]    \* date: <<>> is None, <<t>> is Some(t)

\* Config::is_valid
is_valid(c) == ~(c.layout = <<>> \/ c.title = <<>>)

\* parse_value_time (called at article.rs:133) is defined outside src/parse.rs
\* and src/article.rs; following the format table of the specification, a
\* timestamp is accepted when it is made of digits and date-time separators
\* and is rejected as an InvalidValue otherwise.
TimeChars == {"0", "1", "2", "3", "4", "5", "6", "7", "8", "9", "-", ":", " ", "T"}

parse_value_time(rest, line, lineno) ==
    IF rest # <<>> /\ \A i \in 1..Len(rest) : rest[i] \in TimeChars
    THEN Ok(rest)
    ELSE Err(ParseError("InvalidValue",
             parse_error_message("", line, Len(line) - Len(rest), Len(line), lineno)))

\* the `match key { ... }` of parse (article.rs:105-144): the configuration after
\* the assignment, or the error that `?` / `return Err` hands back
match_key(c, key, rest, line, lineno) ==
    LET str == parse_value_string(trim(rest), line, lineno)
        lst == parse_value_list(trim(rest), line, lineno)
        set(f, r) == IF r.ok THEN Ok([c EXCEPT ![f] = r.val]) ELSE Err(r.err)
    IN
    IF key = K_layout THEN set("layout", str)
    ELSE IF key = K_base_layout THEN set("base_layout", str)
    ELSE IF key = K_title THEN set("title", str)
    ELSE IF key = K_description THEN set("description", str)
    ELSE IF key = K_permalink THEN set("permalink", str)
    ELSE IF key = K_categories THEN set("categories", lst)
    ELSE IF key = K_tags THEN set("tags", lst)
    ELSE IF key = K_titlebar
    THEN set("visible", parse_value_boolean(trim(rest), line, lineno))
    ELSE IF key = K_date
    THEN LET t == parse_value_time(trim(rest), line, lineno) IN
         IF t.ok THEN Ok([c EXCEPT !.date = <<t.val>>]) ELSE Err(t.err)
    ELSE Err(ParseError("InvalidKey",
             parse_error_message("unknown key", line, 0, Len(line) - 1, lineno)))

\* one header line (article.rs:104-145)
header_line(c, line, lineno) ==
    LET k == parse_key(line, line, lineno) IN
    IF ~k.ok THEN Err(k.err)
    ELSE match_key(c, k.val.key, k.val.rest, line, lineno)

\* a delimiter test that accepts any line starting with the delimiter
IsDelimiter_prefix(line) == Len(line) >= 3 /\ SubSeq(line, 1, 3) = Delim

\* a delimiter test that accepts any line containing the delimiter
IsDelimiter_contains(line) ==
    \E i \in 1..(Len(line) - 2) : SubSeq(line, i, i + 2) = Delim

\* `line == "---"` (article.rs:93, 96)
IsDelimiter(line) == line = Delim

\* the four ParseError::InvalidConfig values of article.rs:159-176
E_empty_config ==
    PlainError("InvalidConfig", "empty config no key value pairs found in test.txt")
E_no_closing ==
    PlainError("InvalidConfig", "no at '---' for the last line of the configuration")
E_no_title ==
    PlainError("InvalidConfig", "missing configuration 'title' field")
E_no_layout ==
    PlainError("InvalidConfig",
        "missing configuration 'layout' field or 'base_layout' to be set to a custom value")

\* completion that looks for the closing delimiter before it accepts
completion_closed_first(c, b, n, closed) ==
    IF n = 2 THEN Failed(E_empty_config)
    ELSE IF ~closed THEN Failed(E_no_closing)
    ELSE IF is_valid(c) THEN [kind |-> "Ok", config |-> c, body |-> b]
    ELSE IF c.title = <<>> THEN Failed(E_no_title)
    ELSE Failed(E_no_layout)

\* completion whose first test is `line_n <= 2`
completion_at_most_two(c, b, n, closed) ==
    IF is_valid(c) THEN [kind |-> "Ok", config |-> c, body |-> b]
    ELSE IF n <= 2 THEN Failed(E_empty_config)
    ELSE IF ~closed THEN Failed(E_no_closing)
    ELSE IF c.title = <<>> THEN Failed(E_no_title)
    ELSE Failed(E_no_layout)

\* completion that tests the title before the closing delimiter
completion_title_first(c, b, n, closed) ==
    IF is_valid(c) THEN [kind |-> "Ok", config |-> c, body |-> b]
    ELSE IF n = 2 THEN Failed(E_empty_config)
    ELSE IF c.title = <<>> THEN Failed(E_no_title)
    ELSE IF ~closed THEN Failed(E_no_closing)
    ELSE Failed(E_no_layout)

\* completion whose empty-configuration test is `line_n == 1`
completion_empty_at_one(c, b, n, closed) ==
    IF is_valid(c) THEN [kind |-> "Ok", config |-> c, body |-> b]
    ELSE IF n = 1 THEN Failed(E_empty_config)
    ELSE IF ~closed THEN Failed(E_no_closing)
    ELSE IF c.title = <<>> THEN Failed(E_no_title)
    ELSE Failed(E_no_layout)

\* the return after the loop (article.rs:157-177)
completion(c, b, n, closed) ==
    IF is_valid(c) THEN [kind |-> "Ok", config |-> c, body |-> b]
    ELSE IF n = 2 THEN Failed(E_empty_config)
    ELSE IF ~closed THEN Failed(E_no_closing)
    ELSE IF c.title = <<>> THEN Failed(E_no_title)
    ELSE Failed(E_no_layout)

\* a url that takes the permalink as it is and encodes only the title
article_url_permalink_raw(c) ==
    IF c.permalink = <<>> THEN replace_space(c.title \o <<".", "h", "t", "m", "l">>) ELSE c.permalink

\* the url of Article::parse (article.rs:188-193)
article_url(c) ==
    replace_space(IF c.permalink = <<>> THEN c.title \o <<".", "h", "t", "m", "l">> ELSE c.permalink)

\* Article::parse that keeps the body as parse built it
Article_parse_untrimmed(r) ==
    IF r.kind = "Ok"
    THEN [kind |-> "Ok", config |-> r.config, body |-> r.body,
          template |-> r.body, url |-> article_url(r.config)]
    ELSE r

\* Article::parse (article.rs:182-214) applied to what parse returned
Article_parse(r) ==
    IF r.kind = "Ok"
    THEN [kind |-> "Ok", config |-> r.config, body |-> r.body,
          template |-> trim(r.body), url |-> article_url(r.config)]
    ELSE r

-----------------------------------------------------------------------------
(* The lines a file may hold *)

L_dashes4 == <<"-", "-", "-", "-">>
L_blank == <<>>
L_title_spaced == <<"t", "i", "t", "l", "e", ":", " ", "a", " ", "b", " ">>
L_title_c == <<"t", "i", "t", "l", "e", ":", "c">>
L_title_empty == <<"t", "i", "t", "l", "e", ":">>
L_layout == <<"l", "a", "y", "o", "u", "t", ":", "p">>
L_base_layout == <<"b", "a", "s", "e", "_", "l", "a", "y", "o", "u", "t", ":", "c">>
L_tags == <<"t", "a", "g", "s", ":", "[", "a", ",", " ", "'", "b", ",", "c", "'", "]">>
L_titlebar == <<"t", "i", "t", "l", "e", "b", "a", "r", ":", "t", "r", "u", "e">>
L_description == <<"d", "e", "s", "c", "r", "i", "p", "t", "i", "o", "n", ":", "d">>
L_permalink == <<"p", "e", "r", "m", "a", "l", "i", "n", "k", ":", "a", " ", "b">>
L_categories == <<"c", "a", "t", "e", "g", "o", "r", "i", "e", "s", ":", "a", ",", " ", "b">>
L_date == <<"d", "a", "t", "e", ":", "1">>
L_unknown == <<"x", ":", "y">>
L_text == <<"c", "a", "t", "-", "-", "-", "d", "o", "g">>

Lines ==
    {Delim, L_dashes4, L_blank, L_title_spaced, L_title_c, L_title_empty,
     L_layout, L_base_layout, L_tags, L_titlebar, L_description, L_permalink,
     L_categories, L_date, L_unknown, L_text}

-----------------------------------------------------------------------------
(* Article::parse over one file: the loop of parse, one action per branch *)

\* no Build has been constructed
BuildIdle ==
    /\ bpc = "idle"
    /\ backtrace = FALSE
    /\ includes = <<>>
    /\ layouts = <<>>
    /\ includes_paths = <<>>
    /\ articles = <<>>
    /\ article_paths = <<>>
    /\ ncalls = 0
    /\ discovered = <<>>
    /\ global = [articles |-> <<>>, tags |-> <<>>, cats |-> <<>>]
    /\ art_i = 1
    /\ outcomes = <<>>
    /\ errors = <<>>
    /\ files = <<>>
    /\ log = <<>>
    /\ panic = ""

NotRun == [ok |-> FALSE, val |-> <<>>, err |-> [NoErr EXCEPT !.kind = "NotRun"]]

Pending == [kind |-> "Pending"]

Init ==
    /\ pc = "reading"
    /\ consumed = <<>>
    /\ found_config = FALSE
    /\ line_n = 1
    /\ config = Config_default
    /\ body = <<>>
    /\ reached_end = FALSE
    /\ result = Pending
    /\ lv_in = <<>>
    /\ lv_out = NotRun
    /\ BuildIdle
    /\ arg = <<>>
    /\ ret = <<>>

\* the loop has a line to read: files have MaxLines lines at most, a file
\* with a long header has arg.lines
CanRead ==
    /\ pc = "reading"
    /\ Len(consumed) < (IF DOMAIN arg = {} THEN MaxLines ELSE arg.lines)

\* line_n += 1 on an i8 (article.rs:95, 99, 145): at 127 the addition
\* overflows, which panics in a build with overflow checks and wraps to -128
\* in a build without
bump_line_n ==
    \E checked \in (IF line_n < 127 THEN {FALSE} ELSE BOOLEAN) :
        IF line_n < 127
        THEN line_n' = line_n + 1 /\ pc' = pc
        ELSE IF checked
        THEN line_n' = line_n /\ pc' = "panicked"
        ELSE line_n' = -128 /\ pc' = pc

\* article.rs:93-95
OpenHeader(line) ==
    /\ CanRead
    /\ ~found_config /\ IsDelimiter(line)
    /\ consumed' = Append(consumed, line)
    /\ found_config' = TRUE
    /\ bump_line_n
    /\ UNCHANGED <<reached_end, config, body, result, lv_in, lv_out>>
    /\ UNCHANGED <<buildVars, arg, ret>>

\* article.rs:96-99
CloseHeader(line) ==
    /\ CanRead
    /\ ~(~found_config /\ IsDelimiter(line))
    /\ found_config /\ IsDelimiter(line)
    /\ consumed' = Append(consumed, line)
    /\ reached_end' = TRUE
    /\ found_config' = FALSE
    /\ bump_line_n
    /\ UNCHANGED <<config, body, result, lv_in, lv_out>>
    /\ UNCHANGED <<buildVars, arg, ret>>

\* article.rs:100-102
BodyLine(line) ==
    /\ CanRead
    /\ ~IsDelimiter(line)
    /\ reached_end
    /\ consumed' = Append(consumed, line)
    /\ body' = body \o line \o <<"\n">>
    /\ UNCHANGED <<pc, found_config, reached_end, line_n, config, result, lv_in, lv_out>>
    /\ UNCHANGED <<buildVars, arg, ret>>

\* article.rs:103-145
HeaderLine(line) ==
    /\ CanRead
    /\ ~IsDelimiter(line)
    /\ ~reached_end
    /\ found_config
    /\ consumed' = Append(consumed, line)
    /\ LET r == header_line(config, line, line_n) IN
       IF r.ok
       THEN /\ config' = r.val
            /\ bump_line_n
            /\ UNCHANGED result
       ELSE /\ result' = Failed(r.err)
            /\ pc' = "failed"
            /\ UNCHANGED <<config, line_n>>
    /\ UNCHANGED <<found_config, reached_end, body, lv_in, lv_out>>
    /\ UNCHANGED <<buildVars, arg, ret>>

\* article.rs:146-155
BadFirstLine(line) ==
    /\ CanRead
    /\ ~IsDelimiter(line)
    /\ ~reached_end
    /\ ~found_config
    /\ consumed' = Append(consumed, line)
    /\ result' = Failed(ParseError("InvalidConfig",
           parse_error_message("configuration needs to start with '---' for the first line",
                               line, 0, Len(line), line_n)))
    /\ pc' = "failed"
    /\ UNCHANGED <<found_config, reached_end, line_n, config, body, lv_in, lv_out>>
    /\ UNCHANGED <<buildVars, arg, ret>>

\* article.rs:82-92: data.lines() yields an Err (unreadable or non-UTF-8 line)
ReadError ==
    /\ pc = "reading"
    /\ result' = Failed(ParseError("InvalidValue",
           parse_error_message("io error", <<>>, 0, 10, line_n)))
    /\ pc' = "failed"
    /\ UNCHANGED <<consumed, found_config, reached_end, line_n, config, body, lv_in, lv_out>>
    /\ UNCHANGED <<buildVars, arg, ret>>

\* article.rs:157-177 then article.rs:184-214: the iterator is exhausted
EndOfInput ==
    /\ pc = "reading"
    /\ result' = Article_parse(completion(config, body, line_n, reached_end))
    /\ pc' = "done"
    /\ UNCHANGED <<consumed, found_config, reached_end, line_n, config, body, lv_in, lv_out>>
    /\ UNCHANGED <<buildVars, arg, ret>>

Next ==
    \/ \E line \in Lines : OpenHeader(line)
    \/ \E line \in Lines : CloseHeader(line)
    \/ \E line \in Lines : BodyLine(line)
    \/ \E line \in Lines : HeaderLine(line)
    \/ \E line \in Lines : BadFirstLine(line)
    \/ ReadError
    \/ EndOfInput

Spec == Init /\ [][Next]_vars

-----------------------------------------------------------------------------
(* parse_value_list called directly on a value, as parse_tests does *)

ListAlphabet == {"a", ",", " ", "\"", "'", "[", "]"}

\* the values of parse_tests (parse.rs:383-452)
V_multi_spaced == <<"a", ",", " ", "b", ",", " ", "c", ",", " ", "d">>
V_brackets == <<"[", "a", ",", " ", "b", "]">>
V_brackets_err == <<"[", "a", ",", " ", "b">>
V_single_quote == <<"'", ",", "a", "'", ",", " ", "'", "b", "'">>
V_double_quote == <<"\"", ",", "a", "\"", ",", " ", "\"", "b", "\"">>
V_trailing == <<"a", ",", " ", "b", ",">>
V_brackets_trailing == <<"[", "a", ",", " ", "b", ",", "]">>

ListExamples ==
    {V_multi_spaced, V_brackets, V_brackets_err, V_single_quote, V_double_quote,
     V_trailing, V_brackets_trailing}

ListInputs ==
    UNION {[1..n -> ListAlphabet] : n \in 0..MaxLen} \cup ListExamples

InitList ==
    /\ pc = "list"
    /\ consumed = <<>>
    /\ found_config = FALSE
    /\ line_n = 1
    /\ config = Config_default
    /\ body = <<>>
    /\ reached_end = FALSE
    /\ result = Pending
    /\ lv_in \in ListInputs
    /\ lv_out = NotRun
    /\ BuildIdle
    /\ arg = <<>>
    /\ ret = <<>>

\* let list = parse_value_list(line, "test.txt", line, 1)
CallParseValueList ==
    /\ pc = "list"
    /\ lv_out' = parse_value_list(lv_in, lv_in, 1)
    /\ pc' = "listed"
    /\ UNCHANGED <<consumed, found_config, reached_end, line_n, config, body, result, lv_in>>
    /\ UNCHANGED <<buildVars, arg, ret>>

NextList == CallParseValueList

SpecList == InitList /\ [][NextList]_vars

-----------------------------------------------------------------------------
(* The list grammar, stated on the value's text *)

\* the quote character whose span is open after the first i characters of s,
\* "" when none is: a span runs from a quote character to the next occurrence
\* of the same character
RECURSIVE QuoteOpen(_, _)
QuoteOpen(s, i) ==
    IF i = 0 THEN ""
    ELSE LET q == QuoteOpen(s, i - 1) IN
         IF q = "" THEN (IF s[i] \in {"\"", "'"} THEN s[i] ELSE "")
         ELSE IF s[i] = q THEN "" ELSE q

\* positions of the commas of s that lie outside every quoted span
Separators(s) == {i \in 1..Len(s) : s[i] = "," /\ QuoteOpen(s, i - 1) = ""}

\* the comma-separated pieces of s from position a on
RECURSIVE PiecesFrom(_, _)
PiecesFrom(s, a) ==
    LET later == {i \in Separators(s) : i >= a} IN
    IF later = {} THEN <<SubSeq(s, a, Len(s))>>
    ELSE LET m == CHOOSE i \in later : \A j \in later : i <= j IN
         <<SubSeq(s, a, m - 1)>> \o PiecesFrom(s, m + 1)

Elements(s) == [i \in 1..Len(PiecesFrom(s, 1)) |-> trim(PiecesFrom(s, 1)[i])]

ValidString(v) == trim(v) # <<>> /\ trim(v) # Delim

\* the text between the surrounding brackets of a trimmed value, the value
\* itself when it is not wrapped
Unwrapped(t) ==
    IF starts_with(t, "[") /\ ends_with(t, "]") /\ Len(t) >= 2
    THEN SubSeq(t, 2, Len(t) - 1) ELSE t

HasBracket(s) == \E i \in 1..Len(s) : s[i] \in {"[", "]"}

Listed == pc = "listed"

-----------------------------------------------------------------------------
(* C8: in a list value a comma separates elements only outside every quoted *)
(* span; quote characters stay in the element text; the list returned is    *)
(* the sequence of comma-separated pieces, each trimmed, in order.          *)
C8_QuotedCommasDoNotSplit ==
    Listed /\ lv_out.ok =>
        lv_out.val = Elements(list_unbracket(trim(lv_in)).rest)

C8_Witness ==
    /\ Listed
    /\ lv_in = V_single_quote
    /\ lv_out.ok
    /\ lv_out.val = <<<<"'", ",", "a", "'">>, <<"'", "b", "'">>>>

-----------------------------------------------------------------------------
(* C9: a list value that ends with a separator comma with no element after  *)
(* it, wrapped in square brackets or not, is rejected with InvalidValue     *)
(* 'value expected after semi-colon'.                                       *)

\* v is a list (wrapped in one pair of brackets or not) whose elements are
\* valid strings, followed by one more separator comma and nothing but blanks
TrailingSeparator(v) ==
    LET t == trim(v)
        c == trim(Unwrapped(t))
        p == PiecesFrom(c, 1)
    IN /\ ~(starts_with(t, "[") /\ ~ends_with(t, "]"))
       /\ ~HasBracket(c)
       /\ Len(c) >= 2
       /\ Len(c) \in Separators(c)
       /\ \A i \in 1..(Len(p) - 1) : ValidString(p[i])

\* the claim as stated: always InvalidValue with the separator message
C9_Original ==
    Listed /\ TrailingSeparator(lv_in) =>
        /\ ~lv_out.ok
        /\ lv_out.err.kind = "InvalidValue"
        /\ lv_out.err.message = "value expected after semi-colon"

\* C9 (amended): such a value is always rejected and no list is returned; the
\* error is InvalidValue 'value expected after semi-colon' when the comma is
\* the last character of the scanned text, and EmptyValue 'empty value' when
\* blanks separate the comma from the closing bracket.
C9_TrailingSeparatorRejected ==
    Listed /\ TrailingSeparator(lv_in) =>
        /\ ~lv_out.ok
        /\ lv_out.val = <<>>
        /\ IF ends_with(Unwrapped(trim(lv_in)), ",")
           THEN /\ lv_out.err.kind = "InvalidValue"
                /\ lv_out.err.message = "value expected after semi-colon"
           ELSE /\ lv_out.err.kind = "EmptyValue"
                /\ lv_out.err.message = "empty value"

C9_Witness ==
    /\ Listed
    /\ lv_in = V_brackets_trailing
    /\ TrailingSeparator(lv_in)
    /\ lv_out.err.kind = "InvalidValue"
    /\ lv_out.err.message = "value expected after semi-colon"

-----------------------------------------------------------------------------
-----------------------------------------------------------------------------
(* The input file, read off the lines consumed *)

V_default == <<"d", "e", "f", "a", "u", "l", "t">>
V_true == <<"t", "r", "u", "e">>
V_false == <<"f", "a", "l", "s", "e">>

StringKeys == {K_layout, K_base_layout, K_title, K_description, K_permalink}
ListKeys == {K_categories, K_tags}

HasColon(l) == \E i \in 1..Len(l) : l[i] = ":"

FirstColon(l) == CHOOSE i \in 1..Len(l) : l[i] = ":" /\ \A j \in 1..(i - 1) : l[j] # ":"

KeyOf(l) == SubSeq(l, 1, FirstColon(l) - 1)

ValueOf(l) == trim(SubSeq(l, FirstColon(l) + 1, Len(l)))

\* a list value of the grammar: wrapped in one pair of brackets or in none,
\* every quote closed, every element a valid string
ValidList(v) ==
    LET t == trim(v)
        c == Unwrapped(t)
        p == PiecesFrom(c, 1)
    IN /\ t # <<>>
       /\ ~HasBracket(c)
       /\ QuoteOpen(c, Len(c)) = ""
       /\ \A i \in 1..Len(p) : ValidString(p[i])

\* a key:value line for a recognised key with a valid value
WellFormedLine(l) ==
    /\ HasColon(l)
    /\ \/ KeyOf(l) \in StringKeys /\ ValidString(ValueOf(l))
       \/ KeyOf(l) \in ListKeys /\ ValidList(ValueOf(l))
       \/ KeyOf(l) = K_titlebar /\ ValueOf(l) \in {V_true, V_false}
       \/ KeyOf(l) = K_date /\ parse_value_time(ValueOf(l), l, 0).ok

\* index of the second delimiter line, 0 when the header is never closed
CloseIdx(ls) ==
    IF \E i \in 2..Len(ls) : ls[i] = Delim
    THEN CHOOSE i \in 2..Len(ls) : ls[i] = Delim /\ \A j \in 2..(i - 1) : ls[j] # Delim
    ELSE 0

\* indices of the header lines: after the opening delimiter, before the closing one
HeaderIdx(ls) ==
    IF CloseIdx(ls) = 0 THEN 2..Len(ls) ELSE 2..(CloseIdx(ls) - 1)

Opened(ls) == Len(ls) >= 1 /\ ls[1] = Delim

WellFormedHeader(ls) == Opened(ls) /\ \A i \in HeaderIdx(ls) : WellFormedLine(ls[i])

\* index of the last header line that supplies key, 0 when none does
LastOf(ls, key) ==
    LET idx == {i \in HeaderIdx(ls) : HasColon(ls[i]) /\ KeyOf(ls[i]) = key} IN
    IF idx = {} THEN 0 ELSE CHOOSE i \in idx : \A j \in idx : j <= i

Supplied(ls, key) == LastOf(ls, key) # 0

StrOf(ls, key, default) ==
    IF Supplied(ls, key) THEN ValueOf(ls[LastOf(ls, key)]) ELSE default

ListOf(ls, key) ==
    IF Supplied(ls, key) THEN Elements(Unwrapped(ValueOf(ls[LastOf(ls, key)]))) ELSE <<>>

\* the configuration a well-formed header describes
ExpectedConfig(ls) ==
    [layout |-> StrOf(ls, K_layout, <<>>),
     base_layout |-> StrOf(ls, K_base_layout, V_default),
     title |-> StrOf(ls, K_title, <<>>),
     description |-> StrOf(ls, K_description, <<>>),
     permalink |-> StrOf(ls, K_permalink, <<>>),
     categories |-> ListOf(ls, K_categories),
     tags |-> ListOf(ls, K_tags),
     visible |-> Supplied(ls, K_titlebar) /\ ValueOf(ls[LastOf(ls, K_titlebar)]) = V_true,
     date |-> IF Supplied(ls, K_date) THEN <<ValueOf(ls[LastOf(ls, K_date)])>> ELSE <<>>]

\* the lines ls[a], ..., ls[Len(ls)] joined by newlines
RECURSIVE JoinFrom(_, _)
JoinFrom(ls, a) ==
    IF a > Len(ls) THEN <<>>
    ELSE IF a = Len(ls) THEN ls[a]
    ELSE ls[a] \o <<"\n">> \o JoinFrom(ls, a + 1)

\* the whole file was read and parse returned from after its loop
AtEnd == pc = "done"

IsOk == result.kind = "Ok"

FailedWith(e) == result.kind = e.kind /\ result.err = e

-----------------------------------------------------------------------------
(* C1: a file made of `---`, well-formed key:value lines that supply a      *)
(* title and a layout, `---`, and body lines none of which is `---` parses  *)
(* to Ok; every field holds the trimmed value last supplied for its key     *)
(* (lists: the trimmed elements in order), fields never supplied keep their *)
(* defaults, and the article body is the body lines joined by newlines and  *)
(* trimmed.                                                                 *)
C1_Input(ls) ==
    /\ WellFormedHeader(ls)
    /\ CloseIdx(ls) # 0
    /\ Supplied(ls, K_title)
    /\ Supplied(ls, K_layout)
    /\ \A i \in (CloseIdx(ls) + 1)..Len(ls) : ls[i] # Delim

C1_ValidFileRoundTrip ==
    AtEnd /\ C1_Input(consumed) =>
        /\ IsOk
        /\ result.config = ExpectedConfig(consumed)
        /\ result.template = trim(JoinFrom(consumed, CloseIdx(consumed) + 1))

C1_Witness ==
    /\ AtEnd
    /\ consumed = <<Delim, L_title_spaced, L_tags, L_layout, Delim>>
    /\ IsOk
    /\ result.config.title = <<"a", " ", "b">>
    /\ result.config.tags = <<<<"a">>, <<"'", "b", ",", "c", "'">>>>
    /\ result.config.base_layout = V_default
    /\ result.template = <<>>

-----------------------------------------------------------------------------
(* C2: when the first line is not exactly `---`, parse returns              *)
(* InvalidConfig "configuration needs to start with '---' for the first     *)
(* line" at line 1; no later line is read and no configuration is returned. *)
C2_FirstLineMustBeDelimiter ==
    Len(consumed) >= 1 /\ consumed[1] # Delim =>
        /\ pc = "failed"
        /\ Len(consumed) = 1
        /\ result.kind = "InvalidConfig"
        /\ result.err.message = "configuration needs to start with '---' for the first line"
        /\ result.err.lineno = 1
        /\ result.err.line = consumed[1]
        /\ "config" \notin DOMAIN result

C2_Witness ==
    /\ pc = "failed"
    /\ consumed = <<L_dashes4>>
    /\ result.kind = "InvalidConfig"

-----------------------------------------------------------------------------
(* C3: a header that is opened, holds at least one well-formed key:value    *)
(* line and is not closed before the end of input.                          *)
C3_Input(ls) ==
    /\ WellFormedHeader(ls)
    /\ Len(ls) >= 2
    /\ CloseIdx(ls) = 0

\* the claim as stated: the missing-closing-delimiter error whatever the
\* header lines supply
C3_Original ==
    AtEnd /\ C3_Input(consumed) => FailedWith(E_no_closing)

\* C3 (amended): such an input yields the missing-closing-delimiter error
\* unless its header supplies both a title and a layout; then the
\* configuration is valid and parse returns Ok with an empty body.
C3_UnclosedHeader ==
    AtEnd /\ C3_Input(consumed) =>
        IF Supplied(consumed, K_title) /\ Supplied(consumed, K_layout)
        THEN /\ IsOk
             /\ result.config = ExpectedConfig(consumed)
             /\ result.body = <<>>
        ELSE FailedWith(E_no_closing)

C3_Witness ==
    /\ AtEnd
    /\ consumed = <<Delim, L_title_c, L_tags>>
    /\ FailedWith(E_no_closing)

-----------------------------------------------------------------------------
(* C4: parsing an empty input returns the "empty config, no key value pairs *)
(* found" error and not the missing-closing-delimiter one.                  *)

\* the claim as stated
C4_Original ==
    AtEnd /\ consumed = <<>> => FailedWith(E_empty_config)

\* C4 (amended): parsing an empty input returns InvalidConfig "no at '---'
\* for the last line of the configuration", the missing-closing-delimiter
\* diagnosis, and not the empty-configuration one.
C4_EmptyInput ==
    AtEnd /\ consumed = <<>> =>
        /\ FailedWith(E_no_closing)
        /\ result.err # E_empty_config

C4_Witness ==
    /\ AtEnd
    /\ consumed = <<>>
    /\ result.kind = "InvalidConfig"

-----------------------------------------------------------------------------
(* C5: the classification of an invalid configuration at the end of input.  *)
C5_Input(ls) ==
    /\ ls # <<>> => WellFormedHeader(ls)
    /\ ~(Supplied(ls, K_title) /\ Supplied(ls, K_layout))

\* the claim as stated: (1) no key/value header line consumed, (2) header
\* not closed, (3) title empty, (4) layout missing, in this order
C5_Original ==
    AtEnd /\ C5_Input(consumed) =>
        FailedWith(IF HeaderIdx(consumed) = {} THEN E_empty_config
                   ELSE IF CloseIdx(consumed) = 0 THEN E_no_closing
                   ELSE IF ~Supplied(consumed, K_title) THEN E_no_title
                   ELSE E_no_layout)

\* C5 (amended): the first matching case in this order decides: (1) the
\* input is the opening `---` line alone -> empty configuration; (2) the
\* header was never closed, which includes the empty input -> missing
\* closing delimiter; (3) title empty, which includes `---` directly
\* followed by `---` -> missing title; (4) otherwise -> missing layout.
C5_CompletionOrder ==
    AtEnd /\ C5_Input(consumed) =>
        FailedWith(IF consumed = <<Delim>> THEN E_empty_config
                   ELSE IF CloseIdx(consumed) = 0 THEN E_no_closing
                   ELSE IF ~Supplied(consumed, K_title) THEN E_no_title
                   ELSE E_no_layout)

C5_Witness ==
    /\ AtEnd
    /\ consumed = <<Delim, L_title_c, Delim>>
    /\ FailedWith(E_no_layout)

-----------------------------------------------------------------------------
(* C6: a closed header that supplies a title and a base_layout other than   *)
(* "default", but no layout, is valid: parse returns the configuration and  *)
(* the body, not a missing-layout error.                                    *)
C6_CustomBaseLayoutIsValid ==
    /\ AtEnd
    /\ WellFormedHeader(consumed)
    /\ CloseIdx(consumed) # 0
    /\ Supplied(consumed, K_title)
    /\ ~Supplied(consumed, K_layout)
    /\ StrOf(consumed, K_base_layout, V_default) # V_default
    => IsOk

-----------------------------------------------------------------------------
(* C7: only a line that is exactly `---` acts as a delimiter: reading any   *)
(* other line leaves found_config and reached_end as they were, and a body  *)
(* line that contains `---` among other characters changes nothing of the   *)
(* parser but the body, to which the line and a newline are appended.       *)
ContainsDelim(l) == \E i \in 1..(Len(l) - 2) : SubSeq(l, i, i + 2) = Delim

C7_Step ==
    consumed' # consumed =>
        LET l == consumed'[Len(consumed')] IN
        l # Delim =>
            /\ found_config' = found_config
            /\ reached_end' = reached_end
            /\ reached_end /\ ContainsDelim(l) =>
                   /\ body' = body \o l \o <<"\n">>
                   /\ UNCHANGED <<pc, line_n, config, result>>

C7_OnlyWholeLineDelimits == [][C7_Step]_vars

C7_Witness ==
    /\ pc = "reading"
    /\ reached_end
    /\ ~found_config
    /\ consumed = <<Delim, L_layout, L_title_c, Delim, L_text>>
    /\ body = L_text \o <<"\n">>

-----------------------------------------------------------------------------
(* Article::parse after parse has returned Ok((config, content)): the      *)
(* remaining lines 186-214 applied to enumerated titles and permalinks     *)

UrlAlphabet == {"a", " ", "%", "."}

UrlStrings == UNION {[1..n -> UrlAlphabet] : n \in 0..MaxUrlLen}

B_padded == <<" ", "c", "\n">>

\* the (config, content) pairs parse may have returned: the title of a valid
\* configuration is not empty (article.rs:51-53)
InitArticle ==
    /\ pc = "parsed"
    /\ consumed = <<>>
    /\ found_config = FALSE
    /\ line_n = 1
    /\ \E t \in UrlStrings \ {<<>>}, p \in UrlStrings :
           config = [Config_default EXCEPT !.layout = <<"p">>, !.title = t, !.permalink = p]
    /\ body \in {<<>>, B_padded}
    /\ reached_end = TRUE
    /\ result = Pending
    /\ lv_in = <<>>
    /\ lv_out = NotRun
    /\ BuildIdle
    /\ arg = <<>>
    /\ ret = <<>>

\* let template = ...; let url = ...; return Ok(Article {..})
BuildArticle ==
    /\ pc = "parsed"
    /\ result' = Article_parse([kind |-> "Ok", config |-> config, body |-> body])
    /\ pc' = "article"
    /\ UNCHANGED <<consumed, found_config, reached_end, line_n, config, body, lv_in, lv_out>>
    /\ UNCHANGED <<buildVars, arg, ret>>

NextArticle == BuildArticle

SpecArticle == InitArticle /\ [][NextArticle]_vars

-----------------------------------------------------------------------------
(* C11: the url is the permalink when it is not empty, else the title      *)
(* followed by .html; every space is written %20, every other character    *)
(* is kept, and nothing but permalink and title decides it                 *)

\* u is s with each space written as %20 and every other character in place
RECURSIVE SpaceEncoded(_, _)
SpaceEncoded(s, u) ==
    IF s = <<>> THEN u = <<>>
    ELSE IF Head(s) = " "
         THEN /\ Len(u) >= 3
              /\ SubSeq(u, 1, 3) = <<"%", "2", "0">>
              /\ SpaceEncoded(Tail(s), SubSeq(u, 4, Len(u)))
         ELSE /\ u # <<>>
              /\ Head(u) = Head(s)
              /\ SpaceEncoded(Tail(s), Tail(u))

UrlBase(permalink, title) ==
    IF permalink # <<>> THEN permalink ELSE title \o <<".", "h", "t", "m", "l">>

\* C11: the url of every article built is the space-encoding of its permalink,
\* or of title.html when the permalink is empty, whatever the body is
C11_UrlFromPermalinkOrTitle ==
    pc = "article" =>
        /\ result.kind = "Ok"
        /\ SpaceEncoded(UrlBase(config.permalink, config.title), result.url)

\* a permalink with a space wins over the title and is encoded
C11_Witness ==
    /\ pc = "article"
    /\ config.permalink = <<"a", " ", ".">>
    /\ config.title = <<" ", "a">>
    /\ result.url = <<"a", "%", "2", "0", ".">>

-----------------------------------------------------------------------------
(* Templates and the template engine.  A template source is a sequence of  *)
(* lexemes: literal text, an output of a context variable, an include of a *)
(* named partial, an include of the partial a variable names, or text the  *)
(* engine cannot parse.  Rendered text is a sequence of chunks.            *)

Text(s) == [k |-> "text", v |-> s]

\* a chunk of rendered text that came from a string of the configuration
Chars(cs) == [k |-> "chars", v |-> cs]

\* {{p}}: p is the text between the braces, spaces included
Var(p) == [k |-> "var", v |-> p]

\* {% include 'n' %}
Include(n) == [k |-> "include", v |-> n]

\* {% include p %}
IncludeVar(p) == [k |-> "include_var", v |-> p]

\* a lexeme that is not liquid syntax, such as an unclosed {{
Bad == [k |-> "bad", v |-> ""]

\* The engine's error text, one record per line.
\* from: {% include 'n' %}
FromInclude(n) == [k |-> "from_include", v |-> n]

E_syntax == <<[k |-> "msg", v |-> "syntax error"]>>

E_unknown_partial(n) ==
    <<[k |-> "msg", v |-> "Unknown partial-template"], FromInclude(n),
      [k |-> "with", v |-> ""], [k |-> "context", v |-> n]>>

\* CustomError::LiquidError(<the engine's message>)
LiquidError(e) == [kind |-> "LiquidError", text |-> e]

\* m with key k bound to v (HashMap::insert)
Put(m, k, v) == [x \in DOMAIN m \cup {k} |-> IF x = k THEN v ELSE m[x]]

\* the text holds something the engine cannot parse: such a lexeme, or an
\* opening brace that a configuration string has brought into rendered text
HasBad(tpl) ==
    \E i \in 1..Len(tpl) :
        \/ tpl[i].k = "bad"
        \/ tpl[i].k = "chars" /\ \E j \in 1..Len(tpl[i].v) : tpl[i].v[j] = "{"

\* liquid::Parser::parse
liquid_parse(tpl) == IF HasBad(tpl) THEN Err(E_syntax) ELSE Ok(tpl)

\* the value of a variable path in the context of lines 226-230 and 289-293
var_value(p, ctx) ==
    CASE p = "page.content" -> ctx.page.content
      [] p = " page.content " -> ctx.page.content
      [] p = "page.config.title" -> <<Chars(ctx.page.config.title)>>
      [] p = "page.url" -> <<Chars(ctx.page.url)>>
      [] p = "layout" -> <<Chars(ctx.layout)>>

\* the partial name a variable path holds
name_value(p, ctx) ==
    CASE p = "layout" -> ctx.layout
      [] p = "page.config.layout" -> ctx.page.config.layout

\* liquid::Template::render: lexemes are rendered left to right, the first
\* failure ends the rendering, and a failure inside an include gains the
\* include's trace line
RECURSIVE liquid_render(_, _, _)
liquid_render(tpl, ctx, store) ==
    IF tpl = <<>> THEN Ok(<<>>)
    ELSE LET t == Head(tpl)
             partial(n) ==
                 IF n \notin DOMAIN store THEN Err(E_unknown_partial(n))
                 ELSE LET r == liquid_render(store[n], ctx, store)
                      IN IF r.ok THEN r ELSE Err(r.err \o <<FromInclude(n)>>)
             first == CASE t.k = "var" -> Ok(var_value(t.v, ctx))
                        [] t.k = "include" -> partial(t.v)
                        [] t.k = "include_var" -> partial(name_value(t.v, ctx))
                        [] OTHER -> Ok(<<t>>)
         IN IF ~first.ok THEN first
            ELSE LET rest == liquid_render(Tail(tpl), ctx, store)
                 IN IF rest.ok THEN Ok(first.val \o rest.val) ELSE rest

\* pulldown_cmark on one paragraph of inline text: "cat" becomes "<p>cat</p>\n"
markdown(text) ==
    IF text = <<>> THEN <<>> ELSE <<Text("<p>")>> \o text \o <<Text("</p>\n")>>

-----------------------------------------------------------------------------
(* Article: the record Article::parse returns, and its rendering           *)

\* the liquid::object! of article.rs:195-206 and 243-254
liquid_object(template, c, url) ==
    [content |-> template,
     config |-> [title |-> c.title, description |-> c.description, tags |-> c.tags,
                 categories |-> c.categories, visible |-> c.visible, layout |-> c.layout],
     url |-> url]

\* Article { template, config, url, config_liquid } for a parsed (config, template)
Article(c, template) ==
    [template |-> template, config |-> c, url |-> article_url(c),
     config_liquid |-> liquid_object(template, c, article_url(c))]

render_context(art, g) ==
    [global |-> g, page |-> art.config_liquid, layout |-> art.config.layout]

\* pre_render that replaces the text and keeps the context it was given
pre_render_stale_context(art, g, store, md) ==
    LET parsed == liquid_parse(art.template)
    IN IF ~parsed.ok THEN Err(LiquidError(parsed.err))
       ELSE LET r == liquid_render(parsed.val, render_context(art, g), store)
            IN IF ~r.ok THEN Err(LiquidError(r.err))
               ELSE Ok([art EXCEPT !.template = IF md THEN markdown(r.val) ELSE r.val])

\* pre_render (article.rs:216-257)
pre_render(art, g, store, md) ==
    LET parsed == liquid_parse(art.template)
    IN IF ~parsed.ok THEN Err(LiquidError(parsed.err))
       ELSE LET r == liquid_render(parsed.val, render_context(art, g), store)
            IN IF ~r.ok THEN Err(LiquidError(r.err))
               ELSE LET template == IF md THEN markdown(r.val) ELSE r.val
                    IN Ok([art EXCEPT !.template = template,
                                      !.config_liquid = liquid_object(template, art.config, art.url)])

\* a render that wraps the page in the layout named by layout
wrapping_template_layout(art) == <<Include(art.config.layout)>>

\* the template render wraps the page in: the layout named by base_layout
wrapping_template(art) ==
    IF art.config.base_layout = <<>>
    THEN IF art.config.layout = <<>>
         THEN <<Include(art.config.layout)>>
         ELSE art.template
    ELSE <<Include(art.config.base_layout)>>

\* the warn! records of render (article.rs:264-287): which branch is taken
\* and, in two of the three, the test of the article's text for both
\* spellings of the content placeholder
render_warnings(art) ==
    LET contains(form) ==
            \E i \in 1..Len(art.template) :
                art.template[i].k = "var" /\ art.template[i].v = form
        missing ==
            IF ~contains("page.content") \/ ~contains(" page.content ")
            THEN <<"potentailly missing out {{page.content}}">> ELSE <<>>
    IN IF art.config.base_layout = <<>>
       THEN IF art.config.layout = <<>>
            THEN <<"no base layout found">> \o missing
            ELSE <<"no base layout found and no layout found">>
       ELSE <<"using baselayout">> \o missing

\* render (article.rs:259-294)
render(art, g, store) ==
    LET parsed == liquid_parse(wrapping_template(art))
    IN IF ~parsed.ok THEN Err(LiquidError(parsed.err))
       ELSE LET r == liquid_render(parsed.val, render_context(art, g), store)
            IN IF r.ok THEN r ELSE Err(LiquidError(r.err))

\* true_render (article.rs:296-305)
true_render(art, g, store) ==
    LET first == pre_render(art, g, store, FALSE)
    IN IF ~first.ok THEN first
       ELSE LET second == pre_render(first.val, g, store, TRUE)
            IN IF ~second.ok THEN second
               ELSE render(second.val, g, store)

-----------------------------------------------------------------------------
(* The directories a Build may be pointed at.  util::search_dir,           *)
(* util::read_file and util::path_file_name_to_string supply the file      *)
(* list, the content and the store key of each file.                       *)

\* the directories includes is called with: the layouts and the include of
\* render_chained_includes (article.rs:535-545) in two directories, the second
\* with a file that cannot be read, a path without a file name and a second
\* `page`; a theme with the layout of render_content (article.rs:499); a
\* directory with a template the engine cannot parse; a path that is no directory
TemplateDirs ==
    LET file(path, name, content) ==
            [path |-> path, readable |-> TRUE, name |-> Ok(name), content |-> content]
        default == <<"d", "e", "f", "a", "u", "l", "t">>
        page == <<"p", "a", "g", "e">>
        header == <<"h", "e", "a", "d", "e", "r">>
    IN {[path |-> "_layouts", exists |-> TRUE,
         files |-> <<file("_layouts/default.html", default,
                          <<Include(header), IncludeVar("layout")>>),
                     file("_layouts/page.html", page, <<Var("page.content")>>)>>],
        [path |-> "_include", exists |-> TRUE,
         files |-> <<file("_include/header.html", header, <<Text("I am a header")>>),
                     [path |-> "_include/locked.html", readable |-> FALSE,
                      name |-> Ok(<<"n", "a", "v">>), content |-> <<>>],
                     [path |-> "_include/..", readable |-> TRUE,
                      name |-> Err("no file name"), content |-> <<Text("other")>>],
                     file("_include/page.html", page, <<Text("other")>>)>>],
        [path |-> "_theme", exists |-> TRUE,
         files |-> <<file("_theme/default.html", default,
                          <<Text("<h1>"), Var("page.config.title"), Text("</h1>"),
                            Var("page.content")>>)>>],
        [path |-> "_drafts", exists |-> TRUE,
         files |-> <<file("_drafts/footer.html", <<"f", "o", "o", "t", "e", "r">>,
                          <<Text("footer"), Bad>>)>>],
        [path |-> "_nowhere", exists |-> FALSE, files |-> <<>>]}

\* the directory lists articles is called with.  _articles: cat.md (title
\* `a b`), a file whose parse fails, mole.md (layout `post`, the tag x twice),
\* a file that cannot be opened; _more: twin.md (title `a b` again), nav.md
\* (its body includes a partial nobody loads), bad.md (a body the engine
\* cannot parse); and a path that is no directory
ArticleDirLists ==
    LET file(path, title, layout, tags, categories, template) ==
            [path |-> path, openable |-> TRUE,
             parsed |-> [kind |-> "Ok",
                         art |-> Article([Config_default EXCEPT !.title = title,
                                                                !.layout = layout,
                                                                !.tags = tags,
                                                                !.categories = categories],
                                         template)]]
        page == <<"p", "a", "g", "e">>
        a_articles ==
            [path |-> "_articles", exists |-> TRUE,
             files |-> <<file("_articles/cat.md", <<"a", " ", "b">>, page, <<<<"x">>>>,
                              <<<<"k">>>>, <<Text("cat")>>),
                         [path |-> "_articles/broken.md", openable |-> TRUE,
                          parsed |-> Failed(E_no_title)],
                         file("_articles/mole.md", <<"m">>, <<"p", "o", "s", "t">>,
                              <<<<"x">>, <<"y">>, <<"x">>>>, <<>>,
                              <<Text("cat "), Var("page.config.title")>>),
                         [path |-> "_articles/locked.md", openable |-> FALSE,
                          parsed |-> Failed(E_no_title)]>>]
        a_more ==
            [path |-> "_more", exists |-> TRUE,
             files |-> <<file("_more/twin.md", <<"a", " ", "b">>, page, <<<<"y">>>>,
                              <<<<"k">>, <<"k">>>>, <<Text("dog")>>),
                         file("_more/nav.md", <<"n">>, page, <<>>, <<>>,
                              <<Include(<<"n", "a", "v">>)>>),
                         file("_more/bad.md", <<"e">>, page, <<<<"x">>>>, <<>>, <<Bad>>)>>]
        a_absent == [path |-> "_nowhere", exists |-> FALSE, files |-> <<>>]
    IN {<<>>, <<a_absent>>, <<a_articles>>, <<a_absent, a_more>>, <<a_articles, a_more>>}

\* the directories sass is called with: a stylesheet that compiles, one that
\* does not and one that cannot be read; and a path that is no directory
SassDirs ==
    {[path |-> "_sass", exists |-> TRUE,
      files |-> <<[path |-> "_sass/site.scss", readable |-> TRUE,
                   css |-> Ok(<<Text("body{}")>>), name |-> Ok(<<"s", "i", "t", "e">>)],
                  [path |-> "_sass/broken.scss", readable |-> TRUE, css |-> Err("grass"),
                   name |-> Ok(<<"b">>)],
                  [path |-> "_sass/locked.scss", readable |-> FALSE, css |-> Err("grass"),
                   name |-> Ok(<<"l">>)]>>],
     [path |-> "_nowhere", exists |-> FALSE, files |-> <<>>]}

\* what File::create and write_all may do
IoOutcomes == {"ok", "create_fails", "write_fails"}

OutputRoot == "_output"

\* PathBuf::push: an absolute path replaces the path pushed onto
path_join(root, rel) ==
    IF rel # <<>> /\ Head(rel) = "/" THEN [root |-> "", rel |-> rel]
    ELSE [root |-> root, rel |-> rel]

\* format!("{:?}", path)
path_debug(path) == [quoted |-> path]

\* an error! record, or a warn! record of sass
LogError(what, about) ==
    [level |-> IF what \in {"soemthing went wrong", "parsing sccs", "no .sccs compiling"}
               THEN "warn" ELSE "error",
     what |-> what, about |-> about]

-----------------------------------------------------------------------------
(* Build (lib.rs): the builder calls, then run                             *)

\* Build::new(output, backtrace)
InitBuild ==
    /\ pc = "none"
    /\ consumed = <<>>
    /\ found_config = FALSE
    /\ line_n = 1
    /\ config = Config_default
    /\ body = <<>>
    /\ reached_end = FALSE
    /\ result = Pending
    /\ lv_in = <<>>
    /\ lv_out = NotRun
    /\ bpc = "setup"
    /\ backtrace \in BOOLEAN
    /\ includes = <<>>
    /\ layouts = <<>>
    /\ includes_paths = <<>>
    /\ articles = <<>>
    /\ article_paths = <<>>
    /\ ncalls = 0
    /\ discovered = <<>>
    /\ global = [articles |-> <<>>, tags |-> <<>>, cats |-> <<>>]
    /\ art_i = 1
    /\ outcomes = <<>>
    /\ errors = <<>>
    /\ files = <<>>
    /\ log = <<>>
    /\ panic = ""
    /\ arg = <<>>
    /\ ret = <<>>

\* EagerCompiler::add(name, content): true when the name was already in the
\* store.  The store is the engine's; which of the two sources it holds
\* afterwards is the engine's choice, here `replaces`.
partials_add(store, name, content, replaces) ==
    [existed |-> name \in DOMAIN store,
     store |-> IF name \in DOMAIN store /\ ~replaces THEN store ELSE Put(store, name, content)]

\* the body of `for file_path in util::search_dir(dir, "html", false)` (lib.rs:43-76)
load_template(b, f, layout, bt, replaces) ==
    IF ~f.readable THEN [b EXCEPT !.log = Append(@, LogError("unable to read file", f.path))]
    ELSE IF ~f.name.ok THEN [b EXCEPT !.log = Append(@, LogError("file name", f.path))]
    ELSE LET name == f.name.val
             paths == IF bt THEN Put(b.includes_paths, name, path_debug(f.path))
                      ELSE b.includes_paths
             added == partials_add(b.includes, name, f.content, replaces)
         IN [includes |-> added.store,
             includes_paths |-> paths,
             log |-> IF added.existed THEN Append(b.log, LogError("already exists", name))
                     ELSE b.log,
             layouts |-> IF layout THEN Append(b.layouts, name) ELSE b.layouts]

RECURSIVE load_templates(_, _, _, _, _)
load_templates(b, fs, layout, bt, replaces) ==
    IF fs = <<>> THEN b
    ELSE load_templates(load_template(b, Head(fs), layout, bt, replaces), Tail(fs),
                        layout, bt, replaces)

\* Build::includes(dir, layout) (lib.rs:40-82)
IncludesCall(dir, layout, replaces) ==
    /\ bpc = "setup"
    /\ ncalls < MaxCalls
    /\ LET b == [includes |-> includes, includes_paths |-> includes_paths, log |-> log,
                 layouts |-> layouts]
           after == IF dir.exists
                    THEN load_templates(b, dir.files, layout, backtrace, replaces)
                    ELSE [b EXCEPT !.log = Append(@, LogError("is not a path or directory",
                                                              dir.path))]
       IN /\ includes' = after.includes
          /\ includes_paths' = after.includes_paths
          /\ layouts' = after.layouts
          /\ log' = after.log
    /\ ncalls' = ncalls + 1
    /\ UNCHANGED <<bpc, backtrace, articles, article_paths, discovered, global, art_i,
                   outcomes, errors, files, panic>>
    /\ UNCHANGED <<parserVars, lv_in, lv_out, arg, ret>>

\* an article loop that records the path of every file it opened
load_article_file_all_paths(b, f) ==
    IF ~f.openable
    THEN [b EXCEPT !.discovered = Append(@, f),
                   !.log = Append(@, LogError("Could not read", f.path))]
    ELSE IF f.parsed.kind = "Ok"
         THEN [b EXCEPT !.discovered = Append(@, f),
                        !.articles = Append(@, f.parsed.art),
                        !.article_paths = Append(@, path_debug(f.path))]
         ELSE [b EXCEPT !.discovered = Append(@, f),
                        !.article_paths = Append(@, path_debug(f.path)),
                        !.log = Append(@, LogError("parse", f.parsed.err))]

\* the body of `for f in util::search_dir(&dir, "md", true)` (lib.rs:94-104)
load_article_file(b, f) ==
    IF ~f.openable
    THEN [b EXCEPT !.discovered = Append(@, f),
                   !.log = Append(@, LogError("Could not read", f.path))]
    ELSE IF f.parsed.kind = "Ok"
         THEN [b EXCEPT !.discovered = Append(@, f),
                        !.articles = Append(@, f.parsed.art),
                        !.article_paths = Append(@, path_debug(f.path))]
         ELSE [b EXCEPT !.discovered = Append(@, f),
                        !.log = Append(@, LogError("parse", f.parsed.err))]

RECURSIVE load_article_files(_, _)
load_article_files(b, fs) ==
    IF fs = <<>> THEN b ELSE load_article_files(load_article_file(b, Head(fs)), Tail(fs))

\* an article loader that tests the layout list before it looks at any directory
load_article_dirs_check_first(b, dirs, lays) ==
    IF lays = <<>> THEN [b EXCEPT !.panic = "empty layout list"] ELSE b

\* the body of `for dir in temp` (lib.rs:85-110); a panic ends the loop
RECURSIVE load_article_dirs(_, _, _)
load_article_dirs(b, dirs, lays) ==
    IF dirs = <<>> \/ b.panic # "" THEN b
    ELSE LET dir == Head(dirs)
             after == IF dir.exists
                      THEN IF lays = <<>> THEN [b EXCEPT !.panic = "empty layout list"]
                           ELSE load_article_files(b, dir.files)
                      ELSE [b EXCEPT !.log = Append(@, LogError("is not a path or directory",
                                                                dir.path))]
         IN load_article_dirs(after, Tail(dirs), lays)

\* Build::articles(temp) (lib.rs:84-113)
ArticlesCall(dirs) ==
    /\ bpc = "setup"
    /\ ncalls < MaxCalls
    /\ LET b == [articles |-> articles, article_paths |-> article_paths,
                 discovered |-> discovered, log |-> log, panic |-> ""]
           after == load_article_dirs(b, dirs, layouts)
       IN /\ articles' = after.articles
          /\ article_paths' = after.article_paths
          /\ discovered' = after.discovered
          /\ log' = after.log
          /\ panic' = after.panic
          /\ bpc' = IF after.panic # "" THEN "aborted" ELSE bpc
    /\ ncalls' = ncalls + 1
    /\ UNCHANGED <<backtrace, includes, layouts, includes_paths, global, art_i, outcomes,
                   errors, files>>
    /\ UNCHANGED <<parserVars, lv_in, lv_out, arg, ret>>

\* the body of `for f in util::search_dir(dir, "scss", true)` (lib.rs:118-136);
\* each unwrap panics on its failure
write_css(b, f, io) ==
    IF ~f.readable THEN [b EXCEPT !.log = Append(@, LogError("soemthing went wrong", f.path))]
    ELSE IF ~f.css.ok THEN [b EXCEPT !.log = Append(@, LogError("parsing sccs", f.path))]
    ELSE IF ~f.name.ok THEN [b EXCEPT !.panic = "path_file_name_to_string"]
    ELSE IF io = "create_fails" THEN [b EXCEPT !.panic = "File::create"]
    ELSE IF io = "write_fails"
         THEN [b EXCEPT !.files = Put(@, path_join(OutputRoot, f.name.val), <<>>),
                        !.panic = "write_all"]
         ELSE [b EXCEPT !.files = Put(@, path_join(OutputRoot, f.name.val), f.css.val)]

RECURSIVE write_css_files(_, _, _)
write_css_files(b, fs, io) ==
    IF fs = <<>> \/ b.panic # "" THEN b
    ELSE write_css_files(write_css(b, Head(fs), io), Tail(fs), io)

\* Build::sass(dir, load_paths) (lib.rs:115-142)
SassCall(dir, io) ==
    /\ bpc = "setup"
    /\ ncalls < MaxCalls
    /\ LET b == [files |-> files, log |-> log, panic |-> ""]
           after == IF dir.exists THEN write_css_files(b, dir.files, io)
                    ELSE [b EXCEPT !.log = Append(@, LogError("no .sccs compiling",
                                                             dir.path))]
       IN /\ files' = after.files
          /\ log' = after.log
          /\ panic' = after.panic
          /\ bpc' = IF after.panic # "" THEN "aborted" ELSE bpc
    /\ ncalls' = ncalls + 1
    /\ UNCHANGED <<backtrace, includes, layouts, includes_paths, articles, article_paths,
                   discovered, global, art_i, outcomes, errors>>
    /\ UNCHANGED <<parserVars, lv_in, lv_out, arg, ret>>

\* an index that keeps one url per key and article
push_each_once(m, keys, url) ==
    [k \in DOMAIN m \cup {keys[i] : i \in 1..Len(keys)} |->
        IF k \in {keys[i] : i \in 1..Len(keys)}
        THEN (IF k \in DOMAIN m THEN m[k] ELSE <<>>) \o <<url>>
        ELSE m[k]]

\* for key in keys { m.entry(key).or_insert(Vec::new()).push(url) } (lib.rs:157-163)
RECURSIVE push_each(_, _, _)
push_each(m, keys, url) ==
    IF keys = <<>> THEN m
    ELSE LET k == Head(keys)
             before == IF k \in DOMAIN m THEN m[k] ELSE <<>>
         IN push_each(Put(m, k, Append(before, url)), Tail(keys), url)

\* the loop of lib.rs:155-164 and the object of lib.rs:169-173
RECURSIVE assemble_global(_, _)
assemble_global(g, arts) ==
    IF arts = <<>> THEN g
    ELSE LET a == Head(arts)
         IN assemble_global([articles |-> Append(g.articles, a.config_liquid),
                             tags |-> push_each(g.tags, a.config.tags, a.url),
                             cats |-> push_each(g.cats, a.config.categories, a.url)],
                            Tail(arts))

\* ParserBuilder::build compiles every template of the store
CompileFails == \E n \in DOMAIN includes : HasBad(includes[n])

\* run up to its article loop (lib.rs:144-182): the unwrap of line 153 panics
\* when the engine cannot be built
RunStart ==
    /\ bpc = "setup"
    /\ IF CompileFails
       THEN /\ bpc' = "aborted"
            /\ panic' = "ParserBuilder::build"
            /\ UNCHANGED <<global, log>>
       ELSE /\ bpc' = "rendering"
            /\ global' = assemble_global([articles |-> <<>>, tags |-> <<>>, cats |-> <<>>],
                                         articles)
            /\ log' = IF articles = <<>> THEN Append(log, LogError("no articles found", ""))
                      ELSE log
            /\ UNCHANGED panic
    /\ UNCHANGED <<backtrace, includes, layouts, includes_paths, articles, article_paths,
                   ncalls, discovered, art_i, outcomes, errors, files>>
    /\ UNCHANGED <<parserVars, lv_in, lv_out, arg, ret>>

InLoop == bpc = "rendering" /\ art_i <= Len(articles)

\* art.true_render(&global, &parser) for the article the loop is at
Rendered == true_render(articles[art_i], global, includes)

output_path == path_join(OutputRoot, articles[art_i].url)

\* a write that also puts the page written into the global context
RenderWrite_refreshes_global ==
    /\ InLoop
    /\ Rendered.ok
    /\ files' = Put(files, output_path, Rendered.val)
    /\ outcomes' = Append(outcomes, Rendered)
    /\ global' = [global EXCEPT !.articles[art_i].content = Rendered.val]
    /\ art_i' = art_i + 1
    /\ UNCHANGED <<bpc, backtrace, includes, layouts, includes_paths, articles, article_paths,
                   ncalls, discovered, errors, log, panic>>
    /\ UNCHANGED <<parserVars, lv_in, lv_out, arg, ret>>

\* Ok(output): the file is created and written (lib.rs:190-194)
RenderWrite ==
    /\ InLoop
    /\ Rendered.ok
    /\ files' = Put(files, output_path, Rendered.val)
    /\ outcomes' = Append(outcomes, Rendered)
    /\ art_i' = art_i + 1
    /\ UNCHANGED <<bpc, backtrace, includes, layouts, includes_paths, articles, article_paths,
                   ncalls, discovered, global, errors, log, panic>>
    /\ UNCHANGED <<parserVars, lv_in, lv_out, arg, ret>>

\* Ok(output), and File::create(output_path).unwrap() panics (lib.rs:192)
RenderCreatePanics ==
    /\ InLoop
    /\ Rendered.ok
    /\ outcomes' = Append(outcomes, Rendered)
    /\ bpc' = "aborted"
    /\ panic' = "File::create"
    /\ UNCHANGED <<backtrace, includes, layouts, includes_paths, articles, article_paths,
                   ncalls, discovered, global, art_i, errors, files, log>>
    /\ UNCHANGED <<parserVars, lv_in, lv_out, arg, ret>>

\* Ok(output), the file is created, and write_all(..).unwrap() panics (lib.rs:193)
RenderWritePanics ==
    /\ InLoop
    /\ Rendered.ok
    /\ files' = Put(files, output_path, <<>>)
    /\ outcomes' = Append(outcomes, Rendered)
    /\ bpc' = "aborted"
    /\ panic' = "write_all"
    /\ UNCHANGED <<backtrace, includes, layouts, includes_paths, articles, article_paths,
                   ncalls, discovered, global, art_i, errors, log>>
    /\ UNCHANGED <<parserVars, lv_in, lv_out, arg, ret>>

\* error.contains("from: {% include")
HasIncludeMarker(e) == \E i \in 1..Len(e) : e[i].k = "from_include"

\* format!("Template {}", error)
TemplateKey(e) == <<[k |-> "template_msg", v |-> Head(e).v]>> \o Tail(e)

\* the report of lib.rs:198
RenderReport(e, path) == LogError("render", [text |-> e, paths |-> <<path>>])

\* a failure arm that ends the run
failed_render_aborts(b, e, path) == [b EXCEPT !.panic = "render"]

\* a failure arm that reports every failure at once and groups none
failed_render_reports_all(b, e, path) ==
    IF e.kind = "LiquidError" THEN [b EXCEPT !.log = Append(@, RenderReport(e.text, path))]
    ELSE b

\* the Err(e) arm (lib.rs:195-208)
failed_render(b, e, path) ==
    IF e.kind = "LiquidError"
    THEN IF ~HasIncludeMarker(e.text)
         THEN [b EXCEPT !.log = Append(@, RenderReport(e.text, path))]
         ELSE LET key == TemplateKey(e.text)
                  before == IF key \in DOMAIN b.errors THEN b.errors[key] ELSE <<>>
              IN [b EXCEPT !.errors = Put(@, key, Append(before, path))]
    ELSE b

\* Err(e): nothing is written and the loop goes on (lib.rs:195-211)
RenderFails ==
    /\ InLoop
    /\ ~Rendered.ok
    /\ LET after == failed_render([errors |-> errors, log |-> log, panic |-> ""],
                                  Rendered.err, article_paths[art_i])
       IN /\ errors' = after.errors
          /\ log' = after.log
          /\ panic' = after.panic
          /\ bpc' = IF after.panic # "" THEN "aborted" ELSE bpc
          /\ art_i' = IF after.panic # "" THEN art_i ELSE art_i + 1
    /\ outcomes' = Append(outcomes, Rendered)
    /\ UNCHANGED <<backtrace, includes, layouts, includes_paths, articles, article_paths,
                   ncalls, discovered, global, files>>
    /\ UNCHANGED <<parserVars, lv_in, lv_out, arg, ret>>

EmptyLine == [k |-> "empty", v |-> ""]

\* parse_backtrace (lib.rs:237-263) over the lines of error.split("\n"): a line
\* is kept, a quoted name after an include line gains the template's path when
\* the path table has it and is left out when it has not
RECURSIVE backtrace_lines(_, _, _)
backtrace_lines(ls, inside_include, templates) ==
    IF ls = <<>> THEN <<>>
    ELSE LET l == Head(ls)
         IN IF l.k = "from_include"
            THEN <<l>> \o backtrace_lines(Tail(ls), TRUE, templates)
            ELSE IF inside_include /\ l.k = "quoted"
                 THEN (IF l.v \in DOMAIN templates
                       THEN <<l, [k |-> "located", v |-> <<l.v, templates[l.v]>>]>>
                       ELSE <<EmptyLine>>)
                      \o backtrace_lines(Tail(ls), inside_include, templates)
                 ELSE <<l>> \o backtrace_lines(Tail(ls), inside_include, templates)

\* the engine ends its message with a newline, so split gives a last empty line
parse_backtrace(e, templates) == backtrace_lines(e \o <<EmptyLine>>, FALSE, templates)

\* the report of lib.rs:217-227 for one entry of errors
TemplateReport(key, affected) ==
    LogError("template",
             [text |-> IF backtrace THEN parse_backtrace(key, includes_paths) ELSE key,
              paths |-> affected])

\* the orders a HashMap may iterate the keys S in
Orders(S) ==
    {f \in [1..Cardinality(S) -> S] : \A i, j \in 1..Cardinality(S) : i # j => f[i] # f[j]}

\* the end of run (lib.rs:214-231): one report per entry of errors
ReportErrors ==
    /\ bpc = "rendering"
    /\ art_i > Len(articles)
    /\ \E order \in Orders(DOMAIN errors) :
           log' = log \o [n \in 1..Len(order) |-> TemplateReport(order[n], errors[order[n]])]
    /\ bpc' = "finished"
    /\ UNCHANGED <<backtrace, includes, layouts, includes_paths, articles, article_paths,
                   ncalls, discovered, global, art_i, outcomes, errors, files, panic>>
    /\ UNCHANGED <<parserVars, lv_in, lv_out, arg, ret>>

NextBuild ==
    \/ \E dir \in TemplateDirs, layout \in BOOLEAN, replaces \in BOOLEAN :
           IncludesCall(dir, layout, replaces)
    \/ \E dirs \in ArticleDirLists : ArticlesCall(dirs)
    \/ \E dir \in SassDirs, io \in IoOutcomes : SassCall(dir, io)
    \/ RunStart
    \/ RenderWrite
    \/ RenderCreatePanics
    \/ RenderWritePanics
    \/ RenderFails
    \/ ReportErrors

SpecBuild == InitBuild /\ [][NextBuild]_vars

-----------------------------------------------------------------------------
(* C12: true_render gives the expansion of an include of the base layout   *)
(* against {global, page, layout}, page.content being the markdown HTML of *)
(* the liquid-resolved body                                                *)

\* the body of art resolved by the engine, once
ResolvedBody(art) == liquid_render(art.template, render_context(art, global), includes)

\* the page object whose content is the HTML of the resolved body
HtmlPage(art) == liquid_object(markdown(ResolvedBody(art).val), art.config, art.url)

BaseLayoutExpansion(art) ==
    liquid_render(<<Include(art.config.base_layout)>>,
                  [global |-> global, page |-> HtmlPage(art), layout |-> art.config.layout],
                  includes)

IsLiteral(tpl) == \A i \in 1..Len(tpl) : tpl[i].k = "text"

\* the base layout of art includes a literal header and then the layout, and
\* the layout is {{page.content}}
ChainedLayouts(art) ==
    LET base == art.config.base_layout
    IN /\ base \in DOMAIN includes
       /\ Len(includes[base]) = 2
       /\ includes[base][1].k = "include"
       /\ includes[base][1].v \in DOMAIN includes
       /\ IsLiteral(includes[includes[base][1].v])
       /\ includes[base][2] = IncludeVar("layout")
       /\ art.config.layout \in DOMAIN includes
       /\ includes[art.config.layout] = <<Var("page.content")>>

\* C12: every text true_render returned is the expansion of the include of the
\* article's base layout against {global, page, layout} with page.content the
\* markdown HTML of the resolved body; with chained layouts it is the header's
\* text followed at once by that HTML
C12_RenderExpandsBaseLayout ==
    \A i \in 1..Len(outcomes) :
        outcomes[i].ok =>
            /\ ResolvedBody(articles[i]).ok
            /\ BaseLayoutExpansion(articles[i]).ok
            /\ outcomes[i].val = BaseLayoutExpansion(articles[i]).val
            /\ ChainedLayouts(articles[i]) =>
                   outcomes[i].val =
                       includes[includes[articles[i].config.base_layout][1].v]
                           \o markdown(ResolvedBody(articles[i]).val)

\* render_chained_includes: "I am a header<p>cat</p>\n"
C12_Witness ==
    /\ Len(outcomes) >= 1
    /\ ChainedLayouts(articles[1])
    /\ outcomes[1].ok
    /\ outcomes[1].val = <<Text("I am a header"), Text("<p>"), Text("cat"), Text("</p>\n")>>

-----------------------------------------------------------------------------
(* C13: article loading with an empty layout list                          *)

HasExisting(dirs) == \E i \in 1..Len(dirs) : dirs[i].exists

\* C13 as stated: a call of articles made while no layout is loaded aborts
\* the run whatever directories it is given
C13_Original ==
    [][\A dirs \in ArticleDirLists :
           (ArticlesCall(dirs) /\ layouts = <<>>) => bpc' = "aborted"]_vars

\* C13: a call of articles made while no layout is loaded aborts the run
\* exactly when one of its directories exists, and no article file is parsed
\* either way; a call of includes with layout = false adds no layout
C13_AbortsAtExistingDirectory ==
    [][/\ \A dirs \in ArticleDirLists :
              (ArticlesCall(dirs) /\ layouts = <<>>) =>
                  /\ bpc' = "aborted" <=> HasExisting(dirs)
                  /\ bpc' = "aborted" => panic' = "empty layout list"
                  /\ discovered' = discovered
                  /\ articles' = articles
                  /\ article_paths' = article_paths
       /\ \A dir \in TemplateDirs, replaces \in BOOLEAN :
              IncludesCall(dir, FALSE, replaces) => layouts' = layouts]_vars

\* plain includes were loaded, no layout, and the first existing article
\* directory aborted the run before any file was looked at
C13_Witness ==
    /\ bpc = "aborted"
    /\ panic = "empty layout list"
    /\ <<"h", "e", "a", "d", "e", "r">> \in DOMAIN includes
    /\ layouts = <<>>
    /\ discovered = <<>>
    /\ Len(log) >= 1

-----------------------------------------------------------------------------
(* C14: no failure but the empty layout list aborts the process            *)

\* C14: a run that was aborted was aborted by the empty-layout precondition
C14_OnlyEmptyLayoutAborts == bpc = "aborted" => panic = "empty layout list"

-----------------------------------------------------------------------------
(* C15: the article list and the path list after any sequence of loads     *)

ParsedOk(f) == f.openable /\ f.parsed.kind = "Ok"

Unparsed(f) == ~ParsedOk(f)

\* the files of the directories that exist, in directory and discovery order
RECURSIVE FilesOf(_)
FilesOf(dirs) ==
    IF dirs = <<>> THEN <<>>
    ELSE (IF Head(dirs).exists THEN Head(dirs).files ELSE <<>>) \o FilesOf(Tail(dirs))

LoadFailures == {i \in 1..Len(log) : log[i].what \in {"parse", "Could not read"}}

ArticleListsMatch ==
    LET ok == SelectSeq(discovered, ParsedOk)
    IN /\ Len(articles) = Len(ok)
       /\ Len(article_paths) = Len(articles)
       /\ \A i \in 1..Len(ok) :
              /\ articles[i] = ok[i].parsed.art
              /\ article_paths[i] = path_debug(ok[i].path)
       /\ Cardinality(LoadFailures) = Len(SelectSeq(discovered, Unparsed))

\* C15: a load that finds layouts hands every file of every existing
\* directory to the parser, whatever the earlier files did; and after every
\* step the articles are the successfully parsed files in discovery order,
\* article_paths is as long and holds their paths, and each other file was logged
C15_LoadsIndependently ==
    [][/\ \A dirs \in ArticleDirLists :
              (ArticlesCall(dirs) /\ layouts # <<>>) =>
                  /\ discovered' = discovered \o FilesOf(dirs)
                  /\ bpc' = bpc
       /\ ArticleListsMatch']_vars

\* two directories were loaded: a failed parse and an unreadable file lie
\* between and before files that were parsed
C15_Witness ==
    /\ Len(discovered) = 7
    /\ Len(articles) = 5
    /\ Unparsed(discovered[2])
    /\ Unparsed(discovered[4])
    /\ article_paths[2] = path_debug("_articles/mole.md")
    /\ article_paths[3] = path_debug("_more/twin.md")

-----------------------------------------------------------------------------
(* C16, C17, C18: the article loop of run                                  *)

Failing(i) == ~outcomes[i].ok /\ outcomes[i].err.kind = "LiquidError"

PathOf(i) == path_join(OutputRoot, articles[i].url)

\* C16: a step at which true_render fails with an engine error creates and
\* changes no file, does not abort and moves on to the next article; a
\* successful render is written to its path; and a run that ends has rendered
\* every article and holds a file for each successful render
C16_RenderFailureDoesNotAbort ==
    [][/\ (RenderFails /\ Rendered.err.kind = "LiquidError") =>
              /\ files' = files
              /\ bpc' = "rendering"
              /\ panic' = ""
              /\ art_i' = art_i + 1
       /\ RenderWrite =>
              /\ output_path \in DOMAIN files'
              /\ files'[output_path] = Rendered.val
              /\ art_i' = art_i + 1
       /\ bpc' = "finished" =>
              /\ Len(outcomes') = Len(articles')
              /\ \A i \in 1..Len(outcomes') :
                     outcomes'[i].ok => path_join(OutputRoot, articles'[i].url) \in DOMAIN files']_vars

\* a run ended in which a render failed and a later article was written
C16_Witness ==
    /\ bpc = "finished"
    /\ \E i, j \in 1..Len(outcomes) :
           /\ i < j
           /\ Failing(i)
           /\ outcomes[j].ok
           /\ PathOf(j) \in DOMAIN files
           /\ files[PathOf(j)] = outcomes[j].val

\* the log records of the end-of-run reports
TemplateReports(l) == SelectSeq(l, LAMBDA r : r.what = "template")

RenderReports(l) == SelectSeq(l, LAMBDA r : r.what = "render")

MarkedKeys ==
    {TemplateKey(outcomes[i].err.text) :
        i \in {j \in 1..Len(outcomes) : Failing(j) /\ HasIncludeMarker(outcomes[j].err.text)}}

\* the source paths of the articles 1..n that failed with the message of key
RECURSIVE AffectedBy(_, _)
AffectedBy(key, n) ==
    IF n = 0 THEN <<>>
    ELSE AffectedBy(key, n - 1) \o
         (IF Failing(n) /\ HasIncludeMarker(outcomes[n].err.text)
             /\ TemplateKey(outcomes[n].err.text) = key
          THEN <<article_paths[n]>> ELSE <<>>)

ReportsAtEnd ==
    bpc = "finished" =>
        LET reports == TemplateReports(log)
        IN /\ Len(reports) = Cardinality(MarkedKeys)
           /\ \A key \in MarkedKeys :
                  \E n \in 1..Len(reports) :
                      reports[n] = TemplateReport(key, AffectedBy(key, Len(outcomes)))

\* C17: a failure whose message has the include marker writes no report when
\* it occurs; the reports of such failures are written by the step that ends
\* the run, one for each distinct message, with the paths of exactly the
\* articles that failed with it; a failure without the marker writes its one
\* report when it occurs, with the path of the failing article
C17_IncludeFailuresGroupedAtEnd ==
    [][/\ (RenderFails /\ Rendered.err.kind = "LiquidError"
              /\ HasIncludeMarker(Rendered.err.text)) => log' = log
       /\ (RenderFails /\ Rendered.err.kind = "LiquidError"
              /\ ~HasIncludeMarker(Rendered.err.text)) =>
              log' = Append(log, RenderReport(Rendered.err.text, article_paths[art_i]))
       /\ TemplateReports(log') # TemplateReports(log) =>
              /\ bpc = "rendering"
              /\ art_i > Len(articles)
              /\ bpc' = "finished"
       /\ RenderReports(log') # RenderReports(log) => RenderFails
       /\ ReportsAtEnd']_vars

\* a run ended with one report that lists three articles, a second report for
\* another message, and one report written during the loop
C17_Witness ==
    /\ bpc = "finished"
    /\ Len(TemplateReports(log)) = 2
    /\ \E n \in 1..2 : Len(TemplateReports(log)[n].about.paths) = 3
    /\ Len(RenderReports(log)) = 1
    /\ RenderReports(log)[1].about.paths = <<path_debug("_more/bad.md")>>

Written == {i \in 1..Len(outcomes) : outcomes[i].ok}

\* C18: after a run that ended, each successfully rendered article has its own
\* output file at the output root joined with its url, holding its final page
C18_OneFilePerRenderedArticle ==
    bpc = "finished" =>
        /\ \A i \in Written :
               /\ PathOf(i) \in DOMAIN files
               /\ files[PathOf(i)] = outcomes[i].val
        /\ Cardinality({PathOf(i) : i \in Written}) = Cardinality(Written)

-----------------------------------------------------------------------------
(* C19: the tag and category indexes of the global context                 *)

RECURSIVE Occurrences(_, _)
Occurrences(t, list) ==
    IF list = <<>> THEN 0
    ELSE (IF Head(list) = t THEN 1 ELSE 0) + Occurrences(t, Tail(list))

Repeat(x, n) == [i \in 1..n |-> x]

\* the urls of the articles 1..n, each as often as t occurs in its list
RECURSIVE UrlsListing(_, _, _)
UrlsListing(t, n, field) ==
    IF n = 0 THEN <<>>
    ELSE UrlsListing(t, n - 1, field)
         \o Repeat(articles[n].url,
                   Occurrences(t, IF field = "tags" THEN articles[n].config.tags
                                  ELSE articles[n].config.categories))

IndexKeys == {<<"x">>, <<"y">>, <<"k">>, <<"z">>}

EntryOf(m, t) == IF t \in DOMAIN m THEN m[t] ELSE <<>>

Assembled == bpc \in {"rendering", "finished"}

\* C19: once the global context is assembled, the entry of every tag (and of
\* every category) lists the urls of the loaded articles whose list holds it,
\* in discovery order, once per occurrence; a tag no article has gets no entry
C19_IndexListsUrlsInOrder ==
    Assembled =>
        /\ \A t \in IndexKeys :
               /\ EntryOf(global.tags, t) = UrlsListing(t, Len(articles), "tags")
               /\ EntryOf(global.cats, t) = UrlsListing(t, Len(articles), "cats")
        /\ DOMAIN global.tags \subseteq IndexKeys
        /\ DOMAIN global.cats \subseteq IndexKeys
        /\ \A t \in DOMAIN global.tags : global.tags[t] # <<>>
        /\ \A t \in DOMAIN global.cats : global.cats[t] # <<>>

\* cat and mole share the tag x, which mole lists twice
C19_Witness ==
    /\ Assembled
    /\ Len(articles) = 2
    /\ global.tags[<<"x">>] =
           <<<<"a", "%", "2", "0", "b", ".", "h", "t", "m", "l">>,
             <<"m", ".", "h", "t", "m", "l">>, <<"m", ".", "h", "t", "m", "l">>>>
    /\ global.tags[<<"y">>] = <<<<"m", ".", "h", "t", "m", "l">>>>

-----------------------------------------------------------------------------
(* C20: inserting a template under a key the store already has             *)

\* every template of dir that reaches the store has a key the store holds
AllCollide(dir) ==
    /\ dir.exists
    /\ \E i \in 1..Len(dir.files) : dir.files[i].readable /\ dir.files[i].name.ok
    /\ \A i \in 1..Len(dir.files) :
           (dir.files[i].readable /\ dir.files[i].name.ok) =>
               dir.files[i].name.val \in DOMAIN includes

\* C20: a call of includes whose every insertion collides logs the
\* collisions and leaves the store, the layout list and the path table as
\* they were
C20_CollidingInsertIsDiscarded ==
    [][\A dir \in TemplateDirs, layout \in BOOLEAN, replaces \in BOOLEAN :
           (IncludesCall(dir, layout, replaces) /\ AllCollide(dir)) =>
               /\ Len(log') > Len(log)
               /\ bpc' = "setup"
               /\ includes' = includes
               /\ layouts' = layouts
               /\ includes_paths' = includes_paths]_vars

-----------------------------------------------------------------------------
(* parse_backtrace called directly on enumerated error texts and path tables *)

\* the lines an error text is made of: one of each kind parse_backtrace tells
\* apart (lib.rs:240-258), the quoted names "a" and "b", and a quoted line
\* whose closing quote is missing
ErrorLines ==
    {[k |-> "msg", v |-> <<"m">>],
     FromInclude(<<"a">>),
     [k |-> "quoted", v |-> <<"a">>],
     [k |-> "quoted", v |-> <<"b">>],
     [k |-> "quoted_open", v |-> <<"a">>],
     [k |-> "with", v |-> <<>>],
     [k |-> "context", v |-> <<"a">>]}

\* the newline-terminated texts of at most MaxErrLines lines
ErrorTexts == UNION {[1..n -> ErrorLines] : n \in 0..MaxErrLines}

\* the path side-tables: none, "a" alone, "a" and "b"
PathTables ==
    {<<>>,
     [n \in {<<"a">>} |-> "t/a.html"],
     [n \in {<<"a">>, <<"b">>} |-> IF n = <<"a">> THEN "t/a.html" ELSE "t/b.html"]}

InitBacktrace ==
    /\ pc = "call"
    /\ consumed = <<>>
    /\ found_config = FALSE
    /\ line_n = 1
    /\ config = Config_default
    /\ body = <<>>
    /\ reached_end = FALSE
    /\ result = Pending
    /\ lv_in = <<>>
    /\ lv_out = NotRun
    /\ BuildIdle
    /\ arg \in [error : ErrorTexts, templates : PathTables]
    /\ ret = <<>>

CallParseBacktrace ==
    /\ pc = "call"
    /\ ret' = parse_backtrace(arg.error, arg.templates)
    /\ pc' = "returned"
    /\ UNCHANGED <<consumed, found_config, reached_end, line_n, config, body, result,
                   lv_in, lv_out, arg>>
    /\ UNCHANGED buildVars

SpecBacktrace == InitBacktrace /\ [][CallParseBacktrace]_vars

-----------------------------------------------------------------------------
(* C21: the translated backtrace keeps every line of the error              *)

\* a is b with some elements left out
RECURSIVE IsSubsequence(_, _)
IsSubsequence(a, b) ==
    IF a = <<>> THEN TRUE
    ELSE IF b = <<>> THEN FALSE
    ELSE IF Head(a) = Head(b) THEN IsSubsequence(Tail(a), Tail(b))
    ELSE IsSubsequence(a, Tail(b))

\* line i of the error is a closed quoted name read inside an include section
QuotedInsideInclude(e, i) ==
    /\ e[i].k = "quoted"
    /\ \E j \in 1..(i - 1) : e[j].k = "from_include"

\* C21: every line of the error is in the translation, unchanged and in its
\* order; a quoted name inside an include section is followed by its
\* `name = path` line when the table has the name, and is there without one
\* when the table has not
C21_NoLineLost ==
    pc = "returned" =>
        /\ IsSubsequence(arg.error, ret)
        /\ \A i \in 1..Len(arg.error) :
               QuotedInsideInclude(arg.error, i) =>
                   \E n \in 1..Len(ret) :
                       /\ ret[n] = arg.error[i]
                       /\ (arg.error[i].v \in DOMAIN arg.templates) =>
                              /\ n < Len(ret)
                              /\ ret[n + 1] = [k |-> "located",
                                               v |-> <<arg.error[i].v,
                                                       arg.templates[arg.error[i].v]>>]

-----------------------------------------------------------------------------
(* the Err arm of run (lib.rs:195-208) applied to each kind of CustomError   *)

\* CustomError::IOError(<the wrapped std::io::Error>)
IOError(e) == [kind |-> "IOError", text |-> e]

\* the values of CustomError a failed render may hand to the arm
RenderErrors ==
    {LiquidError(E_syntax),
     LiquidError(E_unknown_partial(<<"a">>)),
     LiquidError(E_unknown_partial(<<"b">>)),
     LiquidError(E_syntax \o <<FromInclude(<<"a">>)>>),
     IOError(<<[k |-> "msg", v |-> "permission denied"]>>),
     IOError(<<[k |-> "msg", v |-> "disk full"]>>)}

\* the errors map of lib.rs:181 as earlier articles may have left it
ErrorsBefore ==
    {<<>>,
     [key \in {TemplateKey(E_unknown_partial(<<"a">>))} |-> <<"_articles/cat.md">>],
     [key \in {TemplateKey(E_unknown_partial(<<"b">>))} |->
          <<"_articles/cat.md", "_articles/mole.md">>]}

InitArm ==
    /\ pc = "call"
    /\ consumed = <<>>
    /\ found_config = FALSE
    /\ line_n = 1
    /\ config = Config_default
    /\ body = <<>>
    /\ reached_end = FALSE
    /\ result = Pending
    /\ lv_in = <<>>
    /\ lv_out = NotRun
    /\ BuildIdle
    /\ arg \in [e : RenderErrors,
                path : {"_articles/mole.md", "_more/nav.md", "_more/bad.md"},
                errors : ErrorsBefore]
    /\ ret = <<>>

CallFailedRender ==
    /\ pc = "call"
    /\ ret' = failed_render([errors |-> arg.errors, log |-> <<>>, panic |-> ""],
                            arg.e, arg.path)
    /\ pc' = "returned"
    /\ UNCHANGED <<consumed, found_config, reached_end, line_n, config, body, result,
                   lv_in, lv_out, arg>>
    /\ UNCHANGED buildVars

SpecArm == InitArm /\ [][CallFailedRender]_vars

-----------------------------------------------------------------------------
(* C22: no render error is dropped                                           *)

\* the article at path is named by a report written or by an entry of the
\* errors map that the arm has added it to
LeftTrace(before, after, path) ==
    \/ \E n \in 1..Len(after.log) : after.log[n].about.paths = <<path>>
    \/ \E key \in DOMAIN after.errors :
           /\ after.errors[key] # <<>>
           /\ after.errors[key][Len(after.errors[key])] = path
           /\ (key \notin DOMAIN before) \/ Len(after.errors[key]) = Len(before[key]) + 1
    \/ after.panic # ""

-----------------------------------------------------------------------------
(* C23: the test empty_content (article.rs:359-367)                         *)

\* C23: Article::parse of an input with no line returns exactly
\* ParseError::InvalidConfig("no at '---' for the last line of the
\* configuration"): a plain message, with no line and no position
C23_EmptyContent ==
    (AtEnd /\ consumed = <<>>) =>
        result = [kind |-> "InvalidConfig",
                  err |-> PlainError("InvalidConfig",
                              "no at '---' for the last line of the configuration")]

C23_Witness ==
    /\ AtEnd
    /\ consumed = <<>>
    /\ line_n = 1
    /\ ~reached_end
    /\ result.err.message = "no at '---' for the last line of the configuration"

-----------------------------------------------------------------------------
(* C24: the body keeps every line read after the closing delimiter           *)

\* C24: once reached_end is set, a step that reads a line, whatever the line,
\* leaves reached_end set and appends the line and a newline to the body
C24_BodyKeepsEveryLine ==
    [][(reached_end /\ consumed' # consumed) =>
           /\ reached_end'
           /\ body' = body \o consumed'[Len(consumed')] \o <<"\n">>]_vars

-----------------------------------------------------------------------------
(* the header branch of parse (article.rs:103-145) on one enumerated line,  *)
(* read right after the opening delimiter                                   *)

\* the values written after the colon
ValueStrings == UNION {[1..n -> {"a", " ", ":"}] : n \in 0..MaxValLen}

\* `key:value` lines, the key being a recognised one, one of two with a space
\* around, an unknown one or the empty one, and lines without a colon (the
\* empty line among them)
HeaderInputs ==
    LET keys == {K_layout, K_base_layout, K_title, K_description, K_permalink,
                 K_categories, K_tags, K_titlebar, K_date, <<" ">> \o K_title,
                 K_layout \o <<" ">>, <<"x">>, <<>>}
    IN {k \o <<":">> \o v : k \in keys, v \in ValueStrings}
           \cup {<<>>, <<"a">>, <<" ">>, K_title, K_title \o <<" ", "a">>}

InitLine ==
    /\ pc = "reading"
    /\ consumed = <<Delim>>
    /\ found_config = TRUE
    /\ line_n = 2
    /\ config = Config_default
    /\ body = <<>>
    /\ reached_end = FALSE
    /\ result = Pending
    /\ lv_in = <<>>
    /\ lv_out = NotRun
    /\ BuildIdle
    /\ arg = <<>>
    /\ ret = <<>>

SpecLine ==
    InitLine /\ [][\E line \in HeaderInputs : Len(consumed) = 1 /\ HeaderLine(line)]_vars

-----------------------------------------------------------------------------
(* C25: how a header line is split, and the errors of a header line         *)

RecognisedKeys == StringKeys \cup {K_categories, K_tags, K_titlebar, K_date}

\* the configuration field a string key sets
FieldOf(key) ==
    CASE key = K_layout -> "layout"
      [] key = K_base_layout -> "base_layout"
      [] key = K_title -> "title"
      [] key = K_description -> "description"
      [] key = K_permalink -> "permalink"

\* the step has ended the parse with an error of this kind: no configuration
\* is returned and no further line is read
StopsWith(kind) ==
    /\ pc' = "failed"
    /\ result'.kind = kind
    /\ result'.err.kind = kind
    /\ config' = config

\* C25: a header line is split at its first colon into the key, taken as it
\* is, and the trimmed rest, which may hold colons; an empty line is an
\* EmptyValue error, a line without a colon an InvalidKey error, an
\* unrecognised key an InvalidKey error, a string key with a blank value an
\* EmptyValue error, and each error ends the parse with no configuration
C25_HeaderLineSplitAtFirstColon ==
    [][\A line \in HeaderInputs :
           HeaderLine(line) =>
               /\ (line = <<>>) => StopsWith("EmptyValue")
               /\ (line # <<>> /\ ~HasColon(line)) => StopsWith("InvalidKey")
               /\ (HasColon(line) /\ KeyOf(line) \notin RecognisedKeys) =>
                      StopsWith("InvalidKey")
               /\ (HasColon(line) /\ KeyOf(line) \in StringKeys /\ ValueOf(line) = <<>>) =>
                      StopsWith("EmptyValue")
               /\ (HasColon(line) /\ KeyOf(line) \in StringKeys
                       /\ ValueOf(line) \notin {<<>>, Delim}) =>
                      /\ pc' = "reading"
                      /\ config' = [config EXCEPT ![FieldOf(KeyOf(line))] = ValueOf(line)]]_vars

\* `title:a:a` has set the title to `a:a`
C25_Witness ==
    /\ pc = "reading"
    /\ consumed = <<Delim, K_title \o <<":", "a", ":", "a">>>>
    /\ config.title = <<"a", ":", "a">>

-----------------------------------------------------------------------------
(* C26: the two quote states of the list scan                               *)

\* the value reaches the scan: it is not blank and its bracket is paired
ScanRuns == trim(lv_in) # <<>> /\ list_unbracket(trim(lv_in)).paired

\* the text the scan runs over
Scanned == list_unbracket(trim(lv_in)).rest

\* a quote state that every occurrence of q toggles is open after s[1..i]
ToggledOpen(s, i, q) == Cardinality({j \in 1..i : s[j] = q}) % 2 = 1

\* the commas that split when the two states are toggled independently
IndependentSeparators(s) ==
    {i \in 1..Len(s) :
        s[i] = "," /\ ~ToggledOpen(s, i - 1, "\"") /\ ~ToggledOpen(s, i - 1, "'")}

\* the claim as stated: each quote character toggles its own state whatever
\* the other state is, a comma splits when both are closed, and a value that
\* ends with either state open is rejected
C26_Original ==
    (Listed /\ ScanRuns) =>
        /\ (ToggledOpen(Scanned, Len(Scanned), "\"") \/ ToggledOpen(Scanned, Len(Scanned), "'"))
               => ~lv_out.ok
        /\ lv_out.ok => Len(lv_out.val) = Cardinality(IndependentSeparators(Scanned)) + 1

\* C26 (amended): a quote character toggles its own state only while the
\* other state is closed, so that inside a quoted span the other quote
\* character is plain text; a comma splits only when both states are closed;
\* a value that ends inside a span is rejected, with InvalidValue unless an
\* element before one of its splitting commas was rejected first; and a value
\* that ends outside every span with valid elements is accepted
C26_QuotesNest ==
    (Listed /\ ScanRuns) =>
        LET pieces == PiecesFrom(Scanned, 1) IN
        /\ QuoteOpen(Scanned, Len(Scanned)) # "" =>
               /\ ~lv_out.ok
               /\ (\A i \in 1..(Len(pieces) - 1) : ValidString(pieces[i])) =>
                      lv_out.err.kind = "InvalidValue"
        /\ (QuoteOpen(Scanned, Len(Scanned)) = ""
               /\ \A i \in 1..Len(pieces) : ValidString(pieces[i])) =>
               /\ lv_out.ok
               /\ Len(lv_out.val) = Cardinality(Separators(Scanned)) + 1

\* a single quote inside a double-quoted span, and a comma after it
C26_Witness ==
    /\ Listed
    /\ lv_in = <<"\"", "'", ",", "\"">>
    /\ lv_out.ok
    /\ lv_out.val = <<lv_in>>

-----------------------------------------------------------------------------
(* true_render step by step on enumerated articles.  The fields of Article  *)
(* and of its configuration are public, so layout and base_layout are taken *)
(* empty as well as set, to a stored template or to a name the store lacks. *)

InitRender ==
    /\ pc = "liquid"
    /\ consumed = <<>>
    /\ found_config = FALSE
    /\ line_n = 1
    /\ config = Config_default
    /\ body = <<>>
    /\ reached_end = FALSE
    /\ result = Pending
    /\ lv_in = <<>>
    /\ lv_out = NotRun
    /\ BuildIdle
    /\ \E title \in {<<"t">>, <<"{">>},
          layout \in {<<>>, <<"p">>, <<"x">>},
          base_layout \in {<<>>, Config_default.base_layout, <<"x">>},
          template \in {<<>>, <<Text("cat")>>, <<Text("cat "), Var("page.config.title")>>,
                        <<Var("page.content")>>,
                        <<Var("page.content"), Var(" page.content ")>>,
                        <<Bad>>, <<Include(<<"x">>)>>} :
           arg = [art |-> Article([Config_default EXCEPT !.title = title, !.layout = layout,
                                                         !.base_layout = base_layout],
                                  template),
                  global |-> [articles |-> <<>>, tags |-> <<>>, cats |-> <<>>],
                  store |-> [n \in {Config_default.base_layout, <<"p">>} |->
                                IF n = <<"p">>
                                THEN <<Text("("), Var(" page.content "), Text(")")>>
                                ELSE <<Text("["), Var("page.content"), Text("]")>>]]
    /\ ret = [art |-> arg.art, steps |-> <<>>, out |-> NotRun, warnings |-> <<>>]

\* .pre_render(&global, parser, md)? (article.rs:302-303)
PreRender(md) ==
    /\ pc = IF md THEN "markdown" ELSE "liquid"
    /\ LET r == pre_render(ret.art, arg.global, arg.store, md)
       IN IF r.ok
          THEN /\ ret' = [ret EXCEPT !.art = r.val, !.steps = Append(@, pc)]
               /\ pc' = IF md THEN "layout" ELSE "markdown"
          ELSE /\ ret' = [ret EXCEPT !.out = r, !.steps = Append(@, pc)]
               /\ pc' = "returned"
    /\ UNCHANGED <<consumed, found_config, reached_end, line_n, config, body, result,
                   lv_in, lv_out, arg>>
    /\ UNCHANGED buildVars

\* .render(&global, parser)? (article.rs:304)
RenderCall ==
    /\ pc = "layout"
    /\ ret' = [ret EXCEPT !.out = render(ret.art, arg.global, arg.store),
                          !.warnings = render_warnings(ret.art),
                          !.steps = Append(@, pc)]
    /\ pc' = "returned"
    /\ UNCHANGED <<consumed, found_config, reached_end, line_n, config, body, result,
                   lv_in, lv_out, arg>>
    /\ UNCHANGED buildVars

NextRender ==
    \/ PreRender(FALSE)
    \/ PreRender(TRUE)
    \/ RenderCall

SpecRender == InitRender /\ [][NextRender]_vars

-----------------------------------------------------------------------------
(* C27: the three steps of true_render                                      *)

Pipeline == <<"liquid", "markdown", "layout">>

\* what the engine makes of a text in the context of an article
Resolved(text, art) ==
    IF HasBad(text) THEN Err(E_syntax)
    ELSE liquid_render(text, [global |-> arg.global, page |-> art.config_liquid,
                              layout |-> art.config.layout], arg.store)

\* C27: the steps taken are the liquid pass, the markdown pass and the
\* layout composition, in that order, and a failing step is the last one;
\* a pass that succeeds replaces the body by its output, converted from
\* markdown in the second pass only, rebuilds the context so that content is
\* the new body, and keeps url and configuration; the composition changes
\* nothing of the article; and what is returned is what true_render returns
C27_PassesInOrder ==
    [][/\ \E n \in 0..3 : ret'.steps = SubSeq(Pipeline, 1, n)
       /\ \A md \in BOOLEAN :
              PreRender(md) =>
                  LET output == Resolved(ret.art.template, ret.art)
                  IN IF output.ok
                     THEN /\ pc' = IF md THEN "layout" ELSE "markdown"
                          /\ ret'.out = NotRun
                          /\ ret'.art.template =
                                 IF md /\ output.val # <<>>
                                 THEN <<Text("<p>")>> \o output.val \o <<Text("</p>\n")>>
                                 ELSE output.val
                          /\ ret'.art.config_liquid.content = ret'.art.template
                          /\ ret'.art.config_liquid.url = ret.art.url
                          /\ ret'.art.config_liquid.config = ret.art.config_liquid.config
                          /\ ret'.art.url = ret.art.url
                          /\ ret'.art.config = ret.art.config
                     ELSE /\ pc' = "returned"
                          /\ ret'.out = Err(LiquidError(output.err))
                          /\ ret'.art = ret.art
       /\ RenderCall => (ret'.art = ret.art /\ ret'.steps = Pipeline)
       /\ pc' = "returned" => ret'.out = true_render(arg.art, arg.global, arg.store)]_vars

\* `cat` has gone through the three steps
C27_Witness ==
    /\ pc = "returned"
    /\ ret.steps = Pipeline
    /\ arg.art.template = <<Text("cat")>>
    /\ ret.art.template = <<Text("<p>"), Text("cat"), Text("</p>\n")>>
    /\ ret.art.config_liquid.content = ret.art.template
    /\ ret.out.ok

-----------------------------------------------------------------------------
(* C28: the template the composition wraps the page in                      *)

\* the wrapping template of the claim
ClaimedWrapping(art) ==
    IF art.config.base_layout # <<>> THEN <<Include(art.config.base_layout)>>
    ELSE IF art.config.layout # <<>> THEN <<Include(art.config.layout)>>
    ELSE art.template

\* C28: the page returned is the include of base_layout when base_layout is
\* not empty, else the include of layout when layout is not empty, else the
\* body itself, rendered in the context of the article
C28_WrappingTemplateChoice ==
    (pc = "returned" /\ ret.steps = Pipeline) =>
        LET page == Resolved(ClaimedWrapping(ret.art), ret.art)
        IN ret.out = IF page.ok THEN page ELSE Err(LiquidError(page.err))

-----------------------------------------------------------------------------
(* C29: the warning about the content placeholder                           *)

HasPlaceholder(text) ==
    \E i \in 1..Len(text) :
        text[i].k = "var" /\ text[i].v \in {"page.content", " page.content "}

\* the composition wraps the page in a template whose text is at hand: a
\* stored template, or the body
WrappingKnown(art) ==
    \/ art.config.base_layout \in DOMAIN arg.store
    \/ art.config.base_layout = <<>> /\ art.config.layout # <<>>

\* the text of the template the composition wraps the page in
WrappingText(art) ==
    IF art.config.base_layout # <<>> THEN arg.store[art.config.base_layout]
    ELSE art.template

\* C29: the composition warns of a missing placeholder exactly when the
\* text of the wrapping template holds neither {{page.content}} nor
\* {{ page.content }}
C29_WarnsIffPlaceholderMissing ==
    (pc = "returned" /\ ret.steps = Pipeline /\ WrappingKnown(ret.art)) =>
        ((\E n \in 1..Len(ret.warnings) :
              ret.warnings[n] = "potentailly missing out {{page.content}}")
            <=> ~HasPlaceholder(WrappingText(ret.art)))

-----------------------------------------------------------------------------
(* C30: the global context during rendering                                 *)

\* C30: the global context changes on one step only, the one that leaves the
\* builder calls for the article loop; from then on no article is loaded;
\* and throughout the loop its article list holds, for each loaded article
\* in order, the body the file was parsed with and the article's url
C30_GlobalFixedBeforeRendering ==
    [][/\ global' # global => (bpc = "setup" /\ bpc' = "rendering")
       /\ bpc = "rendering" => (articles' = articles /\ discovered' = discovered)
       /\ bpc' = "rendering" =>
              LET parsed == SelectSeq(discovered', ParsedOk)
              IN /\ Len(global'.articles) = Len(parsed)
                 /\ \A i \in 1..Len(parsed) :
                        /\ global'.articles[i].content = parsed[i].parsed.art.template
                        /\ global'.articles[i].url = parsed[i].parsed.art.url]_vars

\* an article whose body holds a variable has been rendered to a page, and
\* the global context still holds the body with the variable in it
C30_Witness ==
    /\ bpc = "rendering"
    /\ \E i \in 1..Len(outcomes) :
           /\ outcomes[i].ok
           /\ \E j \in 1..Len(global.articles[i].content) :
                  global.articles[i].content[j].k = "var"
           /\ \A j \in 1..Len(outcomes[i].val) : outcomes[i].val[j].k # "var"

-----------------------------------------------------------------------------
(* parse on a file of MaxHeaderLines lines at most, made of a header that   *)
(* goes on and on and of rules: the opening delimiter, `title:c` lines, a   *)
(* line with an unknown key or a line that cannot be read where the parse   *)
(* fails, and, once the header is closed, `---` lines only                  *)

InitCounter ==
    /\ pc = "reading"
    /\ consumed = <<>>
    /\ found_config = FALSE
    /\ line_n = 1
    /\ config = Config_default
    /\ body = <<>>
    /\ reached_end = FALSE
    /\ result = Pending
    /\ lv_in = <<>>
    /\ lv_out = NotRun
    /\ BuildIdle
    /\ arg = [lines |-> MaxHeaderLines]
    /\ ret = <<>>

SpecCounter ==
    InitCounter /\ [][\/ OpenHeader(Delim)
                      \/ CloseHeader(Delim)
                      \/ HeaderLine(L_title_c)
                      \/ HeaderLine(L_unknown)
                      \/ ReadError
                      \/ EndOfInput]_vars

-----------------------------------------------------------------------------
(* C31: the line counter and the gutter of a diagnostic                     *)

\* the columns the number n takes when printed
PrintedWidth(n) ==
    IF n < 0 THEN 1 + (IF n > -10 THEN 1 ELSE IF n > -100 THEN 2 ELSE 3)
    ELSE IF n < 10 THEN 1 ELSE IF n < 100 THEN 2 ELSE 3

\* the 1-based number of the line a located diagnostic is about: the line
\* read last, or the one after it when that one could not be read
OffendingLine ==
    IF result.err.message = "io error" THEN Len(consumed) + 1 ELSE Len(consumed)

\* C31: the counter never overflows; while the header is read it is the
\* number of the next line; a diagnostic carries the number of the line it
\* is about, its gutter is 2 wide under 99, 3 under 127 and 4 otherwise, and
\* the number fits in the gutter, so that every `|` is in the same column
C31_CounterIsLineNumber ==
    /\ pc # "panicked"
    /\ (pc = "reading" /\ ~reached_end) => line_n = Len(consumed) + 1
    /\ (pc = "failed" /\ result.err.located) =>
           /\ result.err.lineno = OffendingLine
           /\ result.err.spacing =
                  (IF OffendingLine < 99 THEN 2 ELSE IF OffendingLine < 127 THEN 3 ELSE 4)
           /\ PrintedWidth(result.err.lineno) <= result.err.spacing

-----------------------------------------------------------------------------
(* C32: the layouts of a parsed article                                     *)

-----------------------------------------------------------------------------
(* C33: the lines after the closing delimiter                               *)

\* what parse would return if the input ended with its closing delimiter
AtClosing == completion(config, <<>>, CloseIdx(consumed) + 1, TRUE)

\* C33: once the closing delimiter is read, no step changes the
\* configuration or ends the parse, unless a line cannot be read; and at
\* the end of the input the parse succeeds or fails, with that configuration
\* or with that error, as it would have right after the closing delimiter
C33_HeaderDecidesOutcome ==
    [][reached_end =>
           /\ config' = config
           /\ pc' # "panicked"
           /\ pc' = "failed" => result'.err.message = "io error"
           /\ pc' = "done" =>
                  /\ result'.kind = AtClosing.kind
                  /\ result'.kind = "Ok" => result'.config = AtClosing.config
                  /\ result'.kind # "Ok" => result'.err = AtClosing.err]_vars

====
